---- MODULE Spec2Model ----
(***************************************************************************)
(* Model of tools/enrich_metadata.py (rmzi/crate): the similarity          *)
(* primitive, match scorer, conflict resolver, artwork selector, the       *)
(* per-track orchestrator enrich_track and the batch runner main() with    *)
(* its persisted artifacts (catalog, review queue, processing state,       *)
(* dry-run report).                                                        *)
(*                                                                         *)
(* Representation.  A Python string is a sequence of atoms: words and the  *)
(* blank " ".  None is the one-atom sequence NoneVal.  Numbers that the    *)
(* code reads with int() (year, duration) are words with a value in IntOf. *)
(* Scores are integers in units of 1e-4 (0.85 is 8500).  An optional value *)
(* (a review entry or None, an artwork block that may be missing) is a     *)
(* sequence of length 0 or 1.  Timestamps are the number of the run.       *)
(***************************************************************************)
EXTENDS Integers, Sequences, FiniteSets, TLC

\* ------------------------------------------------------------------ bounds
NumTracks == 2
MaxRuns == 2
BatchTracks == 26

\* ------------------------------------------------------- program constants
AUTO_ACCEPT_THRESHOLD == 8500
REVIEW_THRESHOLD == 5000
ART_UPGRADE_MARGIN == 10
CheckpointEvery == 25

FIELD_WEIGHTS == [artist |-> 3500, title |-> 3500, album |-> 1500,
                  year |-> 1000, duration |-> 500]
WeightFields == <<"artist", "title", "album", "year", "duration">>
ResolveFields == <<"artist", "title", "album", "year", "genre">>

\* ------------------------------------------------------------------ values
NoneVal == <<"<None>">>
SPACE == " "
StrOf(v) == IF v = NoneVal THEN <<"None">> ELSE v
Falsy(v) == v = NoneVal \/ v = <<>>

LowerMap == [David |-> "david", Bowie |-> "bowie", Heroes |-> "heroes",
             None |-> "none", Low |-> "low"]
LowerAtom(a) == IF a \in DOMAIN LowerMap THEN LowerMap[a] ELSE a
NoiseAtoms == {"feat.", "ft.", "featuring"}

IntOf == ("1977" :> 1977) @@ ("1978" :> 1978) @@ ("1980" :> 1980) @@ ("1990" :> 1990)
         @@ ("200" :> 200) @@ ("201" :> 201) @@ ("204" :> 204) @@ ("209" :> 209)
         @@ ("300" :> 300)
IsInt(v) == v # NoneVal /\ Len(v) = 1 /\ v[1] \in DOMAIN IntOf
Abs(x) == IF x < 0 THEN -x ELSE x
Min(a, b) == IF a < b THEN a ELSE b
Range(s) == {s[k] : k \in 1..Len(s)}

\* ---------------------------------------------------- similarity primitive
IsWord(a) == a # SPACE /\ LowerAtom(a) \notin NoiseAtoms
RECURSIVE MapLower(_)
MapLower(s) == IF s = <<>> THEN <<>> ELSE <<LowerAtom(Head(s))>> \o MapLower(Tail(s))

\* The normalized string, as the sequence of its words (joined by one blank).
normalize(s) == IF s = <<>> THEN <<>> ELSE MapLower(SelectSeq(s, IsWord))

token_set(s) == Range(normalize(s))

\* A faulty variant: the token overlap alone, without the test for equality.
string_similarity_overlap_only(a, b) ==
  IF a = <<>> \/ b = <<>> THEN [n |-> 0, d |-> 1]
  ELSE IF token_set(a) = {} \/ token_set(b) = {} THEN [n |-> 0, d |-> 1]
  ELSE [n |-> Cardinality(token_set(a) \cap token_set(b)),
        d |-> Cardinality(token_set(a) \cup token_set(b))]

\* The similarity as a fraction n/d.
string_similarity(a, b) ==
  IF a = <<>> \/ b = <<>> THEN [n |-> 0, d |-> 1]
  ELSE IF normalize(a) = normalize(b) THEN [n |-> 1, d |-> 1]
  ELSE IF token_set(a) = {} \/ token_set(b) = {} THEN [n |-> 0, d |-> 1]
  ELSE [n |-> Cardinality(token_set(a) \cap token_set(b)),
        d |-> Cardinality(token_set(a) \cup token_set(b))]

\* ------------------------------------------------------------ match scorer
\* Tenths: 1.0 is 10.
year_similarity(a, b) ==
  IF a = NoneVal \/ b = NoneVal THEN 0
  ELSE IF ~IsInt(a) \/ ~IsInt(b) THEN 0
  ELSE LET diff == Abs(IntOf[a[1]] - IntOf[b[1]])
       IN IF diff = 0 THEN 10 ELSE IF diff = 1 THEN 8 ELSE IF diff <= 3 THEN 4 ELSE 0

duration_similarity(a, b) ==
  IF a = NoneVal \/ b = NoneVal THEN 0
  ELSE IF ~IsInt(a) \/ ~IsInt(b) THEN 0
  ELSE LET diff == Abs(IntOf[a[1]] - IntOf[b[1]])
       IN IF diff <= 2 THEN 10 ELSE IF diff <= 5 THEN 7 ELSE IF diff <= 10 THEN 3 ELSE 0

TextArg(v) == IF Falsy(v) THEN <<>> ELSE StrOf(v)

\* A faulty variant: the album's similarity is taken off the sum.
WeightedTotal_album_subtracts(s1, s2, s3, ys, ds) ==
  [n |-> FIELD_WEIGHTS.artist * s1.n * s2.d * s3.d
         + FIELD_WEIGHTS.title * s2.n * s1.d * s3.d
         + FIELD_WEIGHTS.album * (s3.d - s3.n) * s1.d * s2.d
         + ((FIELD_WEIGHTS.year \div 10) * ys
            + (FIELD_WEIGHTS.duration \div 10) * ds) * (s1.d * s2.d * s3.d),
   d |-> s1.d * s2.d * s3.d]

\* The weighted sum of the five similarities, as a fraction n/d of 1e-4 units.
WeightedTotal(s1, s2, s3, ys, ds) ==
  [n |-> FIELD_WEIGHTS.artist * s1.n * s2.d * s3.d
         + FIELD_WEIGHTS.title * s2.n * s1.d * s3.d
         + FIELD_WEIGHTS.album * s3.n * s1.d * s2.d
         + ((FIELD_WEIGHTS.year \div 10) * ys
            + (FIELD_WEIGHTS.duration \div 10) * ds) * (s1.d * s2.d * s3.d),
   d |-> s1.d * s2.d * s3.d]

\* The multi-source bonus, capped at 1.0.
SourceBonus(total, source_count) ==
  [n |-> IF source_count >= 3 THEN Min(10000 * total.d, total.n + 1000 * total.d)
         ELSE IF source_count >= 2 THEN Min(10000 * total.d, total.n + 500 * total.d)
         ELSE total.n,
   d |-> total.d]

\* round(total, 4)
Round4(total) == (2 * total.n + total.d) \div (2 * total.d)

score(existing, candidate, source_count) ==
  Round4(SourceBonus(
    WeightedTotal(string_similarity(TextArg(existing.artist), TextArg(candidate.artist)),
                  string_similarity(TextArg(existing.title), TextArg(candidate.title)),
                  string_similarity(TextArg(existing.album), TextArg(candidate.album)),
                  year_similarity(existing.year, candidate.year),
                  duration_similarity(existing.duration, candidate.duration)),
    source_count))

\* -------------------------------------------------------- conflict resolver
IsBlank(v) == \A k \in 1..Len(v) : v[k] = SPACE
HasValue(v) == v # NoneVal /\ ~IsBlank(StrOf(v))

\* A faulty variant: the number of sources is looked at before the similarity.
Compared_count_first(existing_val, enriched_val, source_count, sim) ==
  IF source_count >= 2
    THEN [classification |-> "likely_correction", action |-> "flag_review",
          existing |-> existing_val, suggested |-> enriched_val,
          similarity |-> (2000 * sim.n + sim.d) \div (2 * sim.d)]
  ELSE IF 10 * sim.n >= 9 * sim.d
    THEN [classification |-> "confirmed", action |-> "keep"]
  ELSE [classification |-> "alternative", action |-> "keep",
        alternative |-> enriched_val]

\* A faulty variant: a disagreeing candidate value is taken as a supplement.
Compared_overwrites(existing_val, enriched_val, source_count, sim) ==
  IF 10 * sim.n >= 9 * sim.d
    THEN [classification |-> "confirmed", action |-> "keep"]
  ELSE [classification |-> "supplement", action |-> "auto_fill",
        value |-> enriched_val]

\* Both values exist: compare them (lines 235-253).
Compared(existing_val, enriched_val, source_count, sim) ==
  IF 10 * sim.n >= 9 * sim.d
    THEN [classification |-> "confirmed", action |-> "keep"]
  ELSE IF source_count >= 2
    THEN [classification |-> "likely_correction", action |-> "flag_review",
          existing |-> existing_val, suggested |-> enriched_val,
          similarity |-> (2000 * sim.n + sim.d) \div (2 * sim.d)]
  ELSE [classification |-> "alternative", action |-> "keep",
        alternative |-> enriched_val]

resolve(field, existing_val, enriched_val, source_count) ==
  IF ~HasValue(enriched_val)
    THEN [classification |-> "no_data", action |-> "keep"]
  ELSE IF ~HasValue(existing_val)
    THEN [classification |-> "supplement", action |-> "auto_fill",
          value |-> enriched_val]
  ELSE Compared(existing_val, enriched_val, source_count,
                string_similarity(StrOf(existing_val), StrOf(enriched_val)))

\* --------------------------------------------------------- artwork selector
ResolutionScore(width) ==
  IF width >= 1200 THEN 40 ELSE IF width >= 1000 THEN 35
  ELSE IF width >= 500 THEN 20 ELSE IF width >= 250 THEN 10 ELSE 0
ART_SOURCE_SCORES == [coverartarchive |-> 30, itunes |-> 25, discogs |-> 20, existing |-> 15]
ART_TYPE_SCORES == [front |-> 20, unknown |-> 10]
ART_FORMAT_SCORES == [jpeg |-> 10, jpg |-> 10, png |-> 7]
GetOr0(map, key) == IF key \in DOMAIN map THEN map[key] ELSE 0

score_artwork(width, source, art_type, fmt) ==
  ResolutionScore(width) + GetOr0(ART_SOURCE_SCORES, source)
  + GetOr0(ART_TYPE_SCORES, art_type) + GetOr0(ART_FORMAT_SCORES, fmt)

should_upgrade(existing_score, new_score) ==
  new_score > existing_score + ART_UPGRADE_MARGIN

\* ------------------------------------------------- reference lookup client
\* A faulty variant: every tier is queried, whatever the earlier ones found.
search_recordings_every_tier(artist, title, album, r) ==
  LET q1 == ~Falsy(artist) /\ ~Falsy(title)
      c1 == IF q1 THEN r.tier1 ELSE <<>>
      q2 == ~Falsy(artist) /\ ~Falsy(album)
      c2 == IF q2 THEN c1 \o r.tier2 ELSE c1
      q3 == ~Falsy(title)
      c3 == IF q3 THEN c2 \o r.tier3 ELSE c2
  IN [candidates |-> c3,
      queries |-> (IF q1 THEN <<"query_artist_title">> ELSE <<>>)
                  \o (IF q2 THEN <<"query_artist_album">> ELSE <<>>)
                  \o (IF q3 THEN <<"query_title">> ELSE <<>>)]

\* The three-tier search.  r is the collaborator's fixed answer for one track:
\* r.tier1, r.tier2, r.tier3 are what _query returns for each query (a failed
\* or timed-out query returns the empty list).
search_recordings(artist, title, album, r) ==
  LET q1 == ~Falsy(artist) /\ ~Falsy(title)
      c1 == IF q1 THEN r.tier1 ELSE <<>>
      q2 == ~Falsy(artist) /\ ~Falsy(album) /\ c1 = <<>>
      c2 == IF q2 THEN c1 \o r.tier2 ELSE c1
      q3 == ~Falsy(title) /\ c2 = <<>>
      c3 == IF q3 THEN c2 \o r.tier3 ELSE c2
  IN [candidates |-> c3,
      queries |-> (IF q1 THEN <<"query_artist_title">> ELSE <<>>)
                  \o (IF q2 THEN <<"query_artist_album">> ELSE <<>>)
                  \o (IF q3 THEN <<"query_title">> ELSE <<>>)]

\* ------------------------------------------------------------ enrich_track
EmptyUpdates == [f \in {} |-> NoneVal]
SetUpdate(u, field, value) ==
  [f \in DOMAIN u \cup {field} |-> IF f = field THEN value ELSE u[f]]

\* A faulty variant: of two candidates with one score the later comes first.
RECURSIVE InsertScored_ties_reversed(_, _)
InsertScored_ties_reversed(sorted, x) ==
  IF sorted = <<>> THEN <<x>>
  ELSE IF Head(sorted).score > x.score
    THEN <<Head(sorted)>> \o InsertScored_ties_reversed(Tail(sorted), x)
    ELSE <<x>> \o sorted

\* list.sort(key=score, reverse=True): stable, descending.
RECURSIVE InsertScored(_, _)
InsertScored(sorted, x) ==
  IF sorted = <<>> THEN <<x>>
  ELSE IF Head(sorted).score >= x.score
    THEN <<Head(sorted)>> \o InsertScored(Tail(sorted), x)
    ELSE <<x>> \o sorted
\* A faulty variant: the candidates stay in the order of the lookup.
SortScored_unsorted(s) == s

RECURSIVE SortScored(_)
SortScored(s) ==
  IF s = <<>> THEN <<>>
  ELSE InsertScored(SortScored(SubSeq(s, 1, Len(s) - 1)), s[Len(s)])

\* A faulty variant: every candidate is scored as corroborated by two sources.
ScoreAll_two_sources(track, candidates) ==
  [k \in 1..Len(candidates) |->
     [score |-> score(track, candidates[k], 2), cand |-> candidates[k]]]

ScoreAll(track, candidates) ==
  [k \in 1..Len(candidates) |->
     [score |-> score(track, candidates[k], 1), cand |-> candidates[k]]]

\* track.get('original_filename', '')
Filename(track) ==
  IF track.original_filename = NoneVal THEN <<>> ELSE track.original_filename

BaseEnrichment(now) ==
  [status |-> "processed", timestamp |-> now, match_confidence |-> 0,
   source |-> NoneVal, fields_updated |-> <<>>, fields_confirmed |-> <<>>,
   conflicts |-> <<>>, mb_recording_id |-> NoneVal, mb_release_id |-> NoneVal,
   artwork |-> <<>>]

FieldsOf(rec, fields) == [f \in Range(fields) |-> rec[f]]

\* The loop over artist, title, album, year, genre (lines 641-674).
RECURSIVE ResolveLoop(_, _, _, _, _, _)
ResolveLoop(fields, track, best_candidate, best_score, dry_run, acc) ==
  IF fields = <<>> THEN acc
  ELSE
    LET field == Head(fields)
        existing_val == track[field]
        enriched_val == best_candidate[field]
        resolution == resolve(field, existing_val, enriched_val, 1)
        classification == resolution.classification
        next ==
          IF classification = "confirmed"
            THEN [acc EXCEPT !.fields_confirmed = Append(@, field)]
          ELSE IF classification = "supplement" /\ best_score >= REVIEW_THRESHOLD
            THEN [acc EXCEPT
                    !.updates = IF ~dry_run THEN SetUpdate(@, field, resolution.value) ELSE @,
                    !.fields_updated = Append(@, field)]
          ELSE IF classification = "likely_correction"
            THEN [acc EXCEPT
                    !.conflicts = Append(@, [field |-> field,
                                             existing |-> resolution.existing,
                                             suggested |-> resolution.suggested,
                                             similarity |-> resolution.similarity]),
                    !.review_reasons = Append(@, "likely_correction:" \o field)]
          ELSE IF classification = "alternative"
            THEN [acc EXCEPT
                    !.conflicts = Append(@, [field |-> field,
                                             existing |-> existing_val,
                                             alternative |-> resolution.alternative])]
          ELSE acc
    IN ResolveLoop(Tail(fields), track, best_candidate, best_score, dry_run, next)

Suggestion(sc) ==
  [source |-> sc.cand.source, confidence |-> sc.score,
   fields |-> FieldsOf(sc.cand, WeightFields)]

\* What enrich_track hands back: besides the three parts the code returns,
\* whether the call raised, the collaborator calls it made in order and
\* whether an artwork file was written.
Result(raised, enrichment, review, updates, calls, wrote_art) ==
  [raised |-> raised, enrichment |-> enrichment, review |-> review,
   updates |-> updates, calls |-> calls, wrote_art |-> wrote_art]

\* A faulty variant: the store is asked whatever the archive answered.
ArtworkLookup_asks_both(track, r, skip_artwork, best_candidate) ==
  LET ask_caa == ~skip_artwork /\ ~Falsy(best_candidate.mb_release_id)
      art1 == IF ask_caa THEN r.caa ELSE <<>>
      ask_itunes == ~skip_artwork /\ ~Falsy(track.artist) /\ ~Falsy(track.title)
  IN [art |-> IF ask_itunes /\ art1 = <<>> THEN r.itunes ELSE art1,
      calls |-> (IF ask_caa THEN <<"caa_lookup">> ELSE <<>>)
                \o (IF ask_itunes THEN <<"itunes_lookup">> ELSE <<>>)]

\* The artwork lookups (lines 680-687): the archive by release id, then the
\* store when the archive has nothing.
ArtworkLookup(track, r, skip_artwork, best_candidate) ==
  LET ask_caa == ~skip_artwork /\ ~Falsy(best_candidate.mb_release_id)
      art1 == IF ask_caa THEN r.caa ELSE <<>>
      ask_itunes == ~skip_artwork /\ art1 = <<>>
                    /\ ~Falsy(track.artist) /\ ~Falsy(track.title)
  IN [art |-> IF ask_itunes THEN r.itunes ELSE art1,
      calls |-> (IF ask_caa THEN <<"caa_lookup">> ELSE <<>>)
                \o (IF ask_itunes THEN <<"itunes_lookup">> ELSE <<>>)]

\* The artwork decision (lines 689-709) for the art found.
ArtworkDecision(track, art_info) ==
  LET new_score == score_artwork(art_info.width, art_info.source, art_info.type,
                                 art_info.format)
      existing_art_score == IF ~Falsy(track.artwork_path)
                            THEN score_artwork(500, "existing", "front", "jpeg")
                            ELSE 0
  IN [available |-> TRUE, new_score |-> new_score,
      existing_score |-> existing_art_score,
      upgrade |-> should_upgrade(existing_art_score, new_score),
      source |-> art_info.source]

\* The download (lines 711-729): <<>> when none is tried, else what it gave.
ArtworkDownload(track, r, dry_run, art, decision) ==
  IF art = <<>> \/ ~decision[1].upgrade \/ dry_run THEN <<>>
  ELSE <<[call |-> IF art[1].source = "itunes" THEN "itunes_download" ELSE "caa_download",
          result |-> IF art[1].source = "itunes" THEN r.itunes_dl ELSE r.caa_dl,
          art_path |-> <<track.id, "_enriched.",
                         IF art[1].format \in {"jpeg", "jpg"} THEN "jpg" ELSE "png">>]>>

\* The review entry (lines 731-753).
ReviewEntry(track, scored, review_reasons, conflicts) ==
  IF review_reasons # <<>>
  THEN <<[track_id |-> track.id,
          filename |-> Filename(track),
          reason |-> review_reasons,
          existing |-> FieldsOf(track, ResolveFields),
          suggestions |-> <<Suggestion(scored[1])>>
                          \o (IF Len(scored) >= 2 /\ scored[2].score >= REVIEW_THRESHOLD
                              THEN <<Suggestion(scored[2])>> ELSE <<>>),
          conflicts |-> conflicts]>>
  ELSE <<>>

\* enrich_track from the artwork download on (lines 711-755).
Downloaded(track, scored, enrichment1, acc, lookup_calls, decision, review_reasons, download, calls_before) ==
  LET download_success == download # <<>> /\ download[1].result = "ok"
      calls == calls_before \o lookup_calls
               \o (IF download # <<>> THEN <<download[1].call>> ELSE <<>>)
  IN IF download # <<>> /\ download[1].result = "raise"
     THEN Result(TRUE, enrichment1, <<>>, EmptyUpdates, calls, FALSE)
     ELSE Result(FALSE,
                 [enrichment1 EXCEPT
                    !.fields_confirmed = acc.fields_confirmed,
                    !.fields_updated = IF download_success
                                       THEN Append(acc.fields_updated, "artwork")
                                       ELSE acc.fields_updated,
                    !.conflicts = acc.conflicts,
                    !.mb_recording_id = scored[1].cand.mb_recording_id,
                    !.mb_release_id = scored[1].cand.mb_release_id,
                    !.artwork = decision],
                 ReviewEntry(track, scored, review_reasons, acc.conflicts),
                 IF download_success
                 THEN SetUpdate(acc.updates, "artwork_path", download[1].art_path)
                 ELSE acc.updates,
                 calls, download_success)

\* A faulty variant: a dry run does not flag the replacement of artwork.
Decided_dry_keeps_reasons(track, r, dry_run, scored, enrichment1, acc, lookup, decision, calls_before) ==
  Downloaded(track, scored, enrichment1, acc, lookup.calls, decision,
             IF decision # <<>> /\ decision[1].upgrade /\ ~Falsy(track.artwork_path)
                /\ ~dry_run
             THEN Append(acc.review_reasons, "artwork_upgrade_with_existing")
             ELSE acc.review_reasons,
             ArtworkDownload(track, r, dry_run, lookup.art, decision),
             calls_before)

\* A faulty variant: the replacement of artwork is never flagged.
Decided_never_flags(track, r, dry_run, scored, enrichment1, acc, lookup, decision, calls_before) ==
  Downloaded(track, scored, enrichment1, acc, lookup.calls, decision,
             acc.review_reasons,
             ArtworkDownload(track, r, dry_run, lookup.art, decision),
             calls_before)

\* enrich_track from the artwork decision on (lines 689-755).
Decided(track, r, dry_run, scored, enrichment1, acc, lookup, decision, calls_before) ==
  Downloaded(track, scored, enrichment1, acc, lookup.calls, decision,
             IF decision # <<>> /\ decision[1].upgrade /\ ~Falsy(track.artwork_path)
             THEN Append(acc.review_reasons, "artwork_upgrade_with_existing")
             ELSE acc.review_reasons,
             ArtworkDownload(track, r, dry_run, lookup.art, decision),
             calls_before)

\* enrich_track from the artwork lookups on (lines 676-755).
Resolved(track, r, dry_run, scored, enrichment1, acc, lookup, calls_before) ==
  Decided(track, r, dry_run, scored, enrichment1, acc, lookup,
          IF lookup.art # <<>> THEN <<ArtworkDecision(track, lookup.art[1])>> ELSE <<>>,
          calls_before)

\* best_score - second_score < 0.10 (line 626) is a comparison of doubles.  Two
\* scores of four decimals that differ by less than 0.10 always pass it and two
\* that differ by more never do; two that differ by exactly 0.10 pass it when
\* the double difference rounds below the double 0.10.  FloatGapShort lists,
\* among the multiples of 0.0050 from 0.60 up, the best scores for which it does
\* (0.95 - 0.85 is 0.09999999999999998).
FloatGapShort ==
  {6000, 6050, 6100, 6150, 6200, 6250, 6300, 6350, 6400, 6450, 6500, 6550,
   6600, 6900, 6950, 7000, 7050, 7100, 7150, 7200, 7250, 7300, 7350, 7400,
   7450, 7500, 7550, 7600, 7650, 7700, 7750, 7800, 7850, 8150, 8200, 8250,
   8300, 8350, 8400, 8450, 8500, 8550, 8600, 8650, 8700, 8750, 8800, 8850,
   8900, 8950, 9000, 9050, 9100, 9400, 9450, 9500, 9550, 9600, 9650, 9700,
   9750, 9800, 9850, 9900, 9950, 10000}

\* A faulty variant: two scores are never taken as close.
gap_below_tenth_never(best_score, second_score) == FALSE

gap_below_tenth(best_score, second_score) ==
  \/ best_score - second_score < 1000
  \/ best_score - second_score = 1000 /\ best_score \in FloatGapShort

\* A faulty variant: a best score below the review threshold does not stop
\* the enrichment.
Scored_never_stops(track, r, skip_artwork, dry_run, now, scored, calls_before) ==
  Resolved(track, r, dry_run, scored,
           [BaseEnrichment(now) EXCEPT
              !.match_confidence = scored[1].score,
              !.source = scored[1].cand.source,
              !.status = IF scored[1].score >= AUTO_ACCEPT_THRESHOLD THEN "auto_accepted"
                         ELSE IF scored[1].score >= REVIEW_THRESHOLD THEN "review_needed"
                         ELSE "below_threshold"],
           ResolveLoop(ResolveFields, track, scored[1].cand, scored[1].score, dry_run,
                       [fields_confirmed |-> <<>>, fields_updated |-> <<>>,
                        conflicts |-> <<>>, updates |-> EmptyUpdates,
                        review_reasons |-> <<>>]),
           ArtworkLookup(track, r, skip_artwork, scored[1].cand),
           calls_before)

\* enrich_track once the candidates are scored and sorted (lines 618-755).
Scored(track, r, skip_artwork, dry_run, now, scored, calls_before) ==
  LET best_score == scored[1].score
      best_candidate == scored[1].cand
      reasons1 ==
        IF Len(scored) >= 2
           /\ scored[2].score >= REVIEW_THRESHOLD
           /\ gap_below_tenth(best_score, scored[2].score)
           /\ normalize(StrOf(best_candidate.title)) # normalize(StrOf(scored[2].cand.title))
        THEN <<"multiple_high_confidence_disagree">> ELSE <<>>
      status == IF best_score >= AUTO_ACCEPT_THRESHOLD THEN "auto_accepted"
                ELSE IF best_score >= REVIEW_THRESHOLD THEN "review_needed"
                ELSE "below_threshold"
      enrichment1 == [BaseEnrichment(now) EXCEPT !.match_confidence = best_score,
                                                 !.source = best_candidate.source,
                                                 !.status = status]
  IN IF status = "below_threshold"
     THEN Result(FALSE, enrichment1, <<>>, EmptyUpdates, calls_before, FALSE)
     ELSE Resolved(track, r, dry_run, scored, enrichment1,
                   ResolveLoop(ResolveFields, track, best_candidate, best_score, dry_run,
                               [fields_confirmed |-> <<>>, fields_updated |-> <<>>,
                                conflicts |-> <<>>, updates |-> EmptyUpdates,
                                review_reasons |->
                                  IF status = "review_needed"
                                  THEN Append(reasons1, "confidence_between_0.50_and_0.85")
                                  ELSE reasons1]),
                   ArtworkLookup(track, r, skip_artwork, best_candidate),
                   calls_before)

\* enrich_track once the search has answered (lines 606-755).
Searched(track, r, skip_artwork, dry_run, now, search) ==
  IF r.lookup_raises /\ search.queries # <<>>
    THEN Result(TRUE, BaseEnrichment(now), <<>>, EmptyUpdates,
                <<Head(search.queries)>>, FALSE)
  ELSE IF search.candidates = <<>>
    THEN Result(FALSE, [BaseEnrichment(now) EXCEPT !.status = "no_match"], <<>>,
                EmptyUpdates, search.queries, FALSE)
  ELSE Scored(track, r, skip_artwork, dry_run, now,
              SortScored(ScoreAll(track, search.candidates)), search.queries)

\* A faulty variant: the lookup is made whatever the track holds.
enrich_track_always_searches(track, r, skip_artwork, dry_run, now) ==
  Searched(track, r, skip_artwork, dry_run, now,
           search_recordings(track.artist, track.title, track.album, r))

\* One track's enrichment.  r holds the collaborators' answers for the track,
\* now is the timestamp.
enrich_track(track, r, skip_artwork, dry_run, now) ==
  IF Falsy(track.artist) /\ Falsy(track.title)
  THEN Result(FALSE, [BaseEnrichment(now) EXCEPT !.status = "no_metadata"],
              <<[track_id |-> track.id,
                 filename |-> Filename(track),
                 reason |-> <<"no_artist_or_title">>,
                 existing |-> FieldsOf(track, WeightFields),
                 suggestions |-> <<>>]>>,
              EmptyUpdates, <<>>, FALSE)
  ELSE Searched(track, r, skip_artwork, dry_run, now,
                search_recordings(track.artist, track.title, track.album, r))

\* ------------------------------------------------------------------ inputs
\* Track ids, zero-padded so that sorted() orders them by number.
TrackIds == [k \in 1..(NumTracks + BatchTracks) |->
               IF k < 10 THEN "t0" \o ToString(k) ELSE "t" \o ToString(k)]
TrackId(k) == TrackIds[k]

DB == <<"David", SPACE, "Bowie">>
HEROES == <<"Heroes">>
LOW == <<"Low">>
Y1977 == <<"1977">>
Y1978 == <<"1978">>
OLD_ART == <<"old.jpg">>
RELEASE == <<"release-1">>

Track(artist, title, album, year, artwork_path) ==
  [id |-> "", path |-> NoneVal, original_filename |-> <<"file.mp3">>,
   artist |-> artist, title |-> title, album |-> album, year |-> year,
   duration |-> NoneVal, genre |-> NoneVal, artwork_path |-> artwork_path,
   enrichment |-> <<>>]

\* A candidate as _query builds it (lines 352-387): no genre key.
Candidate(artist, title, album, year, release) ==
  [title |-> title, artist |-> artist, album |-> album, year |-> year,
   duration |-> NoneVal, genre |-> NoneVal, mb_recording_id |-> <<"recording-1">>,
   mb_release_id |-> release, mb_score |-> 100, source |-> <<"musicbrainz">>]

CaaArt == [url |-> <<"caa/front-1200.jpg">>, width |-> 1200, type |-> "front",
           format |-> "jpeg", source |-> "coverartarchive"]
ITunesArt == [url |-> <<"itunes/1200x1200.jpg">>, width |-> 1200, type |-> "front",
              format |-> "jpeg", source |-> "itunes"]

Answers(tier1, lookup_raises, caa, caa_dl, itunes, itunes_dl) ==
  [tier1 |-> tier1, tier2 |-> <<>>, tier3 |-> <<>>, lookup_raises |-> lookup_raises,
   caa |-> caa, caa_dl |-> caa_dl, itunes |-> itunes, itunes_dl |-> itunes_dl]

BowieTrack == Track(DB, HEROES, NoneVal, NoneVal, NoneVal)
BowieMatch == <<Candidate(DB, HEROES, LOW, Y1977, RELEASE)>>

\* A track and the collaborators' answers for it.
CaseReview == [track |-> BowieTrack,
               answers |-> Answers(BowieMatch, FALSE, <<CaaArt>>, "ok", <<>>, "ok")]
CaseITunes == [track |-> BowieTrack,
               answers |-> Answers(BowieMatch, FALSE, <<>>, "ok", <<ITunesArt>>, "ok")]
CaseNoMetadata == [track |-> Track(NoneVal, <<>>, NoneVal, NoneVal, NoneVal),
                   answers |-> Answers(<<>>, FALSE, <<>>, "ok", <<>>, "ok")]
CaseLookupRaises == [track |-> BowieTrack,
                     answers |-> Answers(<<>>, TRUE, <<>>, "ok", <<>>, "ok")]
CaseDownloadRaises == [track |-> BowieTrack,
                       answers |-> Answers(BowieMatch, FALSE, <<CaaArt>>, "raise", <<>>, "ok")]
CaseAutoAccept == [track |-> Track(DB, HEROES, LOW, Y1978, OLD_ART),
                   answers |-> Answers(BowieMatch, FALSE, <<CaaArt>>, "ok", <<>>, "ok")]
CaseNoMatch == [track |-> BowieTrack,
                answers |-> Answers(<<>>, FALSE, <<>>, "ok", <<>>, "ok")]

\* One HTTP call of a collaborator: it answers with a payload, times out, or
\* ends with a status other than 200.
CallOutcomes == {"ok", "timeout", "http_error"}
Call(outcome, payload) == [outcome |-> outcome, payload |-> payload]

\* _query (lines 340-348), get_cover_art (413-424), search_artwork (495-512):
\* a RequestException or a status other than 200 gives no result.
query(call) == IF call.outcome = "ok" THEN call.payload ELSE <<>>
get_cover_art(call) == IF call.outcome = "ok" THEN call.payload ELSE <<>>
search_artwork(call) == IF call.outcome = "ok" THEN call.payload ELSE <<>>
\* download_art (lines 459-470, 546-557): False on the same failures.
download_art(call) == IF call.outcome = "ok" THEN "ok" ELSE "fail"

\* A faulty variant: a failed lookup query raises out of the client.
Collaborators_failure_propagates(raw) ==
  [tier1 |-> query(raw.tier1), tier2 |-> query(raw.tier2), tier3 |-> query(raw.tier3),
   lookup_raises |-> \E t \in {raw.tier1, raw.tier2, raw.tier3} : t.outcome # "ok",
   caa |-> get_cover_art(raw.caa), caa_dl |-> download_art(raw.caa_dl),
   itunes |-> search_artwork(raw.itunes), itunes_dl |-> download_art(raw.itunes_dl)]

\* What the clients hand to enrich_track, given what each HTTP call does.
Collaborators(raw) ==
  [tier1 |-> query(raw.tier1), tier2 |-> query(raw.tier2), tier3 |-> query(raw.tier3),
   lookup_raises |-> FALSE,
   caa |-> get_cover_art(raw.caa), caa_dl |-> download_art(raw.caa_dl),
   itunes |-> search_artwork(raw.itunes), itunes_dl |-> download_art(raw.itunes_dl)]

\* Tracks one of whose collaborator calls fails.
Healthy ==
  [tier1 |-> Call("ok", BowieMatch), tier2 |-> Call("ok", BowieMatch),
   tier3 |-> Call("ok", BowieMatch), caa |-> Call("ok", <<CaaArt>>),
   caa_dl |-> Call("ok", <<>>), itunes |-> Call("ok", <<ITunesArt>>),
   itunes_dl |-> Call("ok", <<>>)]
FailingCaseNames == {"queries_fail", "archive_fails", "art_lookups_fail",
                     "download_fails", "store_download_fails"}
FailingCalls(name) ==
  CASE name = "queries_fail" ->
         [Healthy EXCEPT !.tier1.outcome = "timeout", !.tier2.outcome = "http_error",
                         !.tier3.outcome = "timeout"]
    [] name = "archive_fails" -> [Healthy EXCEPT !.caa.outcome = "timeout"]
    [] name = "art_lookups_fail" ->
         [Healthy EXCEPT !.caa.outcome = "http_error", !.itunes.outcome = "timeout"]
    [] name = "download_fails" -> [Healthy EXCEPT !.caa_dl.outcome = "timeout"]
    [] name = "store_download_fails" ->
         [Healthy EXCEPT !.caa.payload = <<>>, !.itunes_dl.outcome = "http_error"]
CaseFailing(name) ==
  [track |-> Track(DB, HEROES, LOW, NoneVal, OLD_ART),
   answers |-> Collaborators(FailingCalls(name))]

CaseNames == {"review", "itunes", "no_metadata", "lookup_raises",
              "download_raises", "auto_accept", "no_match"}
CaseNamed(name) ==
  CASE name = "review" -> CaseReview
    [] name = "itunes" -> CaseITunes
    [] name = "no_metadata" -> CaseNoMetadata
    [] name = "lookup_raises" -> CaseLookupRaises
    [] name = "download_raises" -> CaseDownloadRaises
    [] name = "auto_accept" -> CaseAutoAccept
    [] name = "no_match" -> CaseNoMatch
    [] name \in FailingCaseNames -> CaseFailing(name)

\* Catalogs of n tracks: every case at every place, the others "review".
CaseLists(n) == {[k \in 1..n |-> IF k = p THEN c ELSE "review"] :
                   p \in 1..n, c \in CaseNames}

\* The input file: the dict-keyed metadata_base.json or the list-keyed
\* manifest.json, whose tracks may lack original_filename.
BaseInput == [format |-> "metadata_base", names |-> TRUE]
InputKinds == {BaseInput,
               [format |-> "manifest", names |-> TRUE],
               [format |-> "manifest", names |-> FALSE]}

InputTrack(case, k, kind) ==
  [case.track EXCEPT !.id = TrackId(k),
                     !.path = <<"music", "/", TrackId(k) \o ".mp3">>,
                     !.original_filename = IF kind.names THEN @ ELSE NoneVal]

InputFile(cases, kind) ==
  [format |-> kind.format, generated |-> 0,
   tracks |-> [k \in 1..Len(cases) |-> InputTrack(CaseNamed(cases[k]), k, kind)]]

\* What the output directory holds before the first run.
AbsentFile == [kind |-> "absent", content |-> <<>>]
DirKinds == {"clean", "state_unparseable", "state_not_object",
             "report_unparseable", "report_not_object"}

\* ------------------------------------------------------------------- state
VARIABLES
  world,            \* the input file's kind and, per track, its case: never changes
  enrichedFile,     \* metadata_enriched.json: <<>> or <<content>>
  stateFile,        \* .enrichment_state.json
  reviewFile,       \* review_queue.json: <<>> or <<items>>
  reportFile,       \* dry_run_report.json
  artFiles,         \* the artwork files written
  runs,             \* runs started so far; the clock of the timestamps
  pc,               \* "idle", "loop", "done", "offline", "fatal", "interrupted"
  args,             \* the command line of the current run
  metadata,         \* main's metadata['tracks'], in order
  input_format,
  state_processed,  \* EnrichmentState._processed
  dry_run_cache,    \* the entries of the loaded dry-run report
  review_queue,
  dry_run_results,
  i,                \* the next place of track_items
  processed, skipped, from_cache,
  loaded,           \* history: the catalog and processing state as loaded at the start
  calls,            \* history: the collaborator calls of the run, <<place, call>>
  outcome,          \* history: how each place was handled in the run
  unsaved,          \* history: tracks handled since the last checkpoint
  limiter,          \* one RateLimiter and the threads calling its wait()
  probe             \* one call of a pure function: its arguments and what it gave

fileVars == <<enrichedFile, stateFile, reviewFile, reportFile, artFiles>>
runVars == <<pc, args, metadata, input_format, state_processed, dry_run_cache,
             review_queue, dry_run_results, i, processed, skipped, from_cache,
             loaded, calls, outcome, unsaved>>
auxVars == <<limiter, probe>>
vars == <<world, runs, fileVars, runVars, auxVars>>

\* No thread calls the limiter; no function is probed.
NoThreads == [pc |-> <<>>, holder |-> 0]
NoProbe == [fn |-> "none"]
InitAux == limiter = NoThreads /\ probe = NoProbe

\* The input file (args.input) and the collaborators' answers, one per track.
input == InputFile(world.cases, world.kind)
answers(k) == CaseNamed(world.cases[k]).answers

\* ------------------------------------------------- persisted-state plumbing
LastSegment(key) ==
  LET slashes == {k \in 1..Len(key) : key[k] = "/"}
      last == IF slashes = {} THEN 0 ELSE CHOOSE k \in slashes : \A m \in slashes : m <= k
  IN SubSeq(key, last + 1, Len(key))

\* _normalize_input: a list of tracks gets every missing original_filename set
\* from its key (path or id).
normalize_input(raw) ==
  IF raw.format = "manifest"
  THEN [metadata |->
          [k \in 1..Len(raw.tracks) |->
             LET track == raw.tracks[k]
                 key == IF ~Falsy(track.path) THEN track.path ELSE <<track.id>>
             IN IF track.original_filename = NoneVal
                THEN [track EXCEPT !.original_filename = LastSegment(key)]
                ELSE track],
        fmt |-> "manifest", generated |-> raw.generated]
  ELSE [metadata |-> raw.tracks, fmt |-> "metadata_base", generated |-> raw.generated]

denormalize_output(tracks, fmt, generated, now) ==
  IF fmt = "manifest"
  THEN [format |-> fmt, generated |-> now, tracks |-> tracks]
  ELSE [format |-> fmt, generated |-> generated, tracks |-> tracks]

\* A faulty variant of run_offline_fallback: the last track is left unmarked.
run_offline_fallback_skips_last(raw, now) ==
  LET n == normalize_input(raw)
      marked == [k \in 1..Len(n.metadata) |->
                   IF k = Len(n.metadata) THEN n.metadata[k]
                   ELSE [n.metadata[k] EXCEPT !.enrichment =
                           <<[status |-> "skipped", reason |-> "offline", timestamp |-> now]>>]]
  IN denormalize_output(marked, n.fmt, n.generated, now)

\* run_offline_fallback: the input, every track marked skipped/offline.
run_offline_fallback(raw, now) ==
  LET n == normalize_input(raw)
      marked == [k \in 1..Len(n.metadata) |->
                   [n.metadata[k] EXCEPT !.enrichment =
                      <<[status |-> "skipped", reason |-> "offline", timestamp |-> now]>>]]
  IN denormalize_output(marked, n.fmt, n.generated, now)

\* sorted(self._processed)
SortedIds(S) == SelectSeq(TrackIds, LAMBDA id : id \in S)

\* Faulty variants: no id is ever found processed; marking replaces the set.
is_processed_never(processed_set, track_id) == FALSE
mark_processed_replaces(processed_set, track_id) == {track_id}

\* EnrichmentState.is_processed, mark_processed
is_processed(processed_set, track_id) == track_id \in processed_set
mark_processed(processed_set, track_id) == processed_set \cup {track_id}

\* EnrichmentState.save
StateSave(processed_set) == [kind |-> "valid", content |-> SortedIds(processed_set)]

\* EnrichmentState._load.  A file that is JSON but no object raises
\* AttributeError at data.get, which the except clause does not name.
StateLoad(file) ==
  IF file.kind = "valid" THEN [raised |-> FALSE, processed |-> Range(file.content)]
  ELSE IF file.kind = "not_object" THEN [raised |-> TRUE, processed |-> {}]
  ELSE [raised |-> FALSE, processed |-> {}]

\* Loading dry_run_report.json (lines 907-922).
ReportLoad(file) ==
  IF file.kind = "valid" THEN [raised |-> FALSE, cache |-> file.content]
  ELSE IF file.kind = "not_object" THEN [raised |-> TRUE, cache |-> <<>>]
  ELSE [raised |-> FALSE, cache |-> <<>>]

\* dry_run_cache.get(track_id): <<>> or <<entry>>.
CacheGet(cache, id) ==
  LET hits == {k \in 1..Len(cache) : cache[k].track_id = id}
  IN IF hits = {} THEN <<>>
     ELSE <<cache[CHOOSE k \in hits : \A m \in hits : m <= k]>>

\* --------------------------------------------------------------- main loop
ArgSets == [dry_run : BOOLEAN, resume : BOOLEAN, skip_artwork : BOOLEAN,
            limit : {0, 1}]
NoArgs == [dry_run |-> FALSE, resume |-> FALSE, skip_artwork |-> FALSE, limit |-> 0]

\* len(track_items) after the --limit cut (lines 925-927).
NumItems == IF args.limit > 0 THEN Min(args.limit, Len(metadata)) ELSE Len(metadata)

\* The cached branch of the loop body (lines 951-975): the stored decision,
\* and the artwork fetched again from the archive alone.
Replayed(track, r, enrichment, updates, review, fetch, caa_art) ==
  LET ok == caa_art # <<>> /\ r.caa_dl = "ok"
  IN Result(caa_art # <<>> /\ r.caa_dl = "raise",
            IF ok THEN [enrichment EXCEPT !.fields_updated = Append(@, "artwork")]
            ELSE enrichment,
            review,
            IF ok
            THEN SetUpdate(updates, "artwork_path",
                           <<track.id, "_enriched.",
                             IF caa_art[1].format \in {"jpeg", "jpg"} THEN "jpg" ELSE "png">>)
            ELSE updates,
            (IF fetch THEN <<"caa_lookup">> ELSE <<>>)
            \o (IF caa_art # <<>> THEN <<"caa_download">> ELSE <<>>),
            ok)

\* A faulty variant: the replay attaches a new record in place of the cached one.
ReplayFetch_fresh_record(track, r, cached, fetch, now) ==
  Replayed(track, r, BaseEnrichment(now), cached.proposed_updates, cached.review, fetch,
           IF fetch THEN r.caa ELSE <<>>)

ReplayFetch(track, r, cached, fetch, now) ==
  Replayed(track, r, [cached.enrichment EXCEPT !.timestamp = now],
           cached.proposed_updates, cached.review, fetch,
           IF fetch THEN r.caa ELSE <<>>)

replay_cached(track, cached, r, skip_artwork, now) ==
  ReplayFetch(track, r, cached,
              ~skip_artwork
              /\ cached.enrichment.artwork # <<>> /\ cached.enrichment.artwork[1].upgrade
              /\ ~Falsy(cached.enrichment.mb_release_id)
              /\ "artwork_path" \notin DOMAIN cached.proposed_updates,
              now)

\* for field, value in result['updates'].items(): track[field] = value
ApplyUpdates(track, updates) ==
  [f \in DOMAIN track |-> IF f \in DOMAIN updates THEN updates[f] ELSE track[f]]

ArtPathsOf(track, res) ==
  IF res.wrote_art THEN {res.updates.artwork_path} ELSE {}

CallsAt(place, made) == {<<place, made[k]>> : k \in 1..Len(made)}

\* _save_checkpoint, on the three artifacts.
CheckpointCatalog(tracks) ==
  <<denormalize_output(tracks, input_format, loaded.generated, runs)>>
CheckpointReview(queue) == IF queue # <<>> THEN <<queue>> ELSE reviewFile

\* _save_dry_run_report
DryRunReport(results) == [kind |-> "valid", content |-> results]

\* main() up to the loop (lines 860-937), given the catalog n as normalized,
\* the processing state st and the dry-run report rep as loaded.
Started(a, online, n, st, rep) ==
  /\ pc # "loop"
  /\ runs < MaxRuns
  /\ runs' = runs + 1
  /\ args' = a
  /\ metadata' = n.metadata
  /\ input_format' = n.fmt
  /\ loaded' = [tracks |-> n.metadata, generated |-> n.generated,
                processed |-> IF online THEN st.processed ELSE {}]
  /\ review_queue' = <<>>
  /\ dry_run_results' = <<>>
  /\ i' = 1
  /\ processed' = 0 /\ skipped' = 0 /\ from_cache' = 0
  /\ calls' = {}
  /\ outcome' = [k \in 1..Len(n.metadata) |-> "pending"]
  /\ unsaved' = 0
  /\ IF ~online
     THEN /\ pc' = "offline"
          /\ enrichedFile' = <<run_offline_fallback(input, runs')>>
          /\ state_processed' = {}
          /\ dry_run_cache' = <<>>
     ELSE /\ pc' = IF st.raised \/ rep.raised THEN "fatal" ELSE "loop"
          /\ enrichedFile' = enrichedFile
          /\ state_processed' = st.processed
          /\ dry_run_cache' = IF st.raised THEN <<>> ELSE rep.cache
  /\ UNCHANGED <<world, stateFile, reviewFile, reportFile, artFiles, auxVars>>

\* One run started with the command line a: load the catalog, check
\* connectivity, load the processing state and the dry-run report.
StartRun(a, online) ==
  Started(a, online,
          normalize_input(IF a.resume /\ enrichedFile # <<>> THEN enrichedFile[1] ELSE input),
          StateLoad(stateFile),
          IF a.dry_run THEN [raised |-> FALSE, cache |-> <<>>] ELSE ReportLoad(reportFile))

\* The cached decision for the track at place k, and what handling the track
\* gives: the replayed decision if there is one, else enrich_track's.
CachedFor(k) == IF ~args.dry_run THEN CacheGet(dry_run_cache, metadata[k].id) ELSE <<>>
\* A faulty variant of ResultOf: the cached decision is ignored.
ResultOf_ignores_cache(track, cached, r) ==
  enrich_track(track, r, args.skip_artwork, args.dry_run, runs)

ResultOf(track, cached, r) ==
  IF cached # <<>>
  THEN replay_cached(track, cached[1], r, args.skip_artwork, runs)
  ELSE enrich_track(track, r, args.skip_artwork, args.dry_run, runs)
ResultFor(k) == ResultOf(metadata[k], CachedFor(k), answers(k))

\* The periodic checkpoint (lines 1042-1047).
Checkpoint(new_metadata, new_results, new_queue, new_state) ==
  IF (processed + 1) % CheckpointEvery # 0
  THEN /\ unsaved' = unsaved + 1
       /\ UNCHANGED <<enrichedFile, reviewFile, stateFile, reportFile>>
  ELSE IF args.dry_run
  THEN /\ reportFile' = DryRunReport(new_results)
       /\ unsaved' = 0
       /\ UNCHANGED <<enrichedFile, reviewFile, stateFile>>
  ELSE /\ enrichedFile' = CheckpointCatalog(new_metadata)
       /\ reviewFile' = CheckpointReview(new_queue)
       /\ stateFile' = StateSave(new_state)
       /\ unsaved' = 0
       /\ UNCHANGED reportFile

\* The loop body for one track (lines 940-1047).
Handle(track, cached, result) ==
  IF args.resume /\ is_processed(state_processed, track.id)
  THEN \* skip already processed (resume)
       /\ skipped' = skipped + 1
       /\ i' = i + 1
       /\ outcome' = [outcome EXCEPT ![i] = "skipped"]
       /\ UNCHANGED <<pc, metadata, state_processed, review_queue, dry_run_results,
                      processed, from_cache, calls, unsaved, fileVars>>
  ELSE IF cached # <<>> /\ result.raised
  THEN \* nothing catches an exception of the cached branch
       /\ pc' = "fatal"
       /\ calls' = calls \cup CallsAt(i, result.calls)
       /\ UNCHANGED <<metadata, state_processed, review_queue, dry_run_results, i,
                      processed, skipped, from_cache, outcome, unsaved, fileVars>>
  ELSE IF result.raised
  THEN \* except Exception (lines 984-992)
       /\ metadata' = [metadata EXCEPT ![i].enrichment =
                         <<[status |-> "error", error |-> "exception",
                            timestamp |-> runs]>>]
       /\ state_processed' = mark_processed(state_processed, track.id)
       /\ i' = i + 1
       /\ calls' = calls \cup CallsAt(i, result.calls)
       /\ outcome' = [outcome EXCEPT ![i] = "error"]
       /\ unsaved' = unsaved + 1
       /\ UNCHANGED <<pc, review_queue, dry_run_results, processed, skipped,
                      from_cache, fileVars>>
  ELSE /\ metadata' = [metadata EXCEPT ![i] =
                         IF ~args.dry_run
                         THEN ApplyUpdates([track EXCEPT !.enrichment = <<result.enrichment>>],
                                           result.updates)
                         ELSE [track EXCEPT !.enrichment = <<result.enrichment>>]]
       /\ dry_run_results' = IF args.dry_run
                             THEN Append(dry_run_results,
                                         [track_id |-> track.id,
                                          filename |-> Filename(track),
                                          enrichment |-> result.enrichment,
                                          proposed_updates |-> result.updates,
                                          review |-> result.review])
                             ELSE dry_run_results
       /\ review_queue' = review_queue \o result.review
       /\ state_processed' = mark_processed(state_processed, track.id)
       /\ processed' = processed + 1
       /\ from_cache' = IF cached # <<>> THEN from_cache + 1 ELSE from_cache
       /\ i' = i + 1
       /\ calls' = calls \cup CallsAt(i, result.calls)
       /\ outcome' = [outcome EXCEPT ![i] = IF cached # <<>> THEN "cache" ELSE "fresh"]
       /\ artFiles' = artFiles \cup ArtPathsOf(track, result)
       /\ Checkpoint(metadata', dry_run_results', review_queue', state_processed')
       /\ UNCHANGED <<pc, skipped>>

\* One iteration of the loop (lines 939-1047).
HandleTrack ==
  /\ pc = "loop"
  /\ i <= NumItems
  /\ Handle(metadata[i], CachedFor(i), ResultFor(i))
  /\ UNCHANGED <<world, runs, args, input_format, dry_run_cache, loaded, auxVars>>

\* After the loop: the final save, and the dry-run report consumed (lines 1049-1058).
FinishRun ==
  /\ pc = "loop"
  /\ i > NumItems
  /\ pc' = "done"
  /\ unsaved' = 0
  /\ IF args.dry_run
     THEN /\ reportFile' = DryRunReport(dry_run_results)
          /\ UNCHANGED <<enrichedFile, reviewFile, stateFile>>
     ELSE /\ enrichedFile' = CheckpointCatalog(metadata)
          /\ reviewFile' = CheckpointReview(review_queue)
          /\ stateFile' = StateSave(state_processed)
          /\ reportFile' = AbsentFile
  /\ UNCHANGED <<world, runs, artFiles, auxVars, args, metadata, input_format,
                 state_processed, dry_run_cache, review_queue, dry_run_results, i,
                 processed, skipped, from_cache, loaded, calls, outcome>>

\* A run-level interrupt (KeyboardInterrupt is no Exception: nothing catches it).
Interrupt ==
  /\ pc = "loop"
  /\ pc' = "interrupted"
  /\ UNCHANGED <<world, runs, fileVars, auxVars, args, metadata, input_format,
                 state_processed, dry_run_cache, review_queue, dry_run_results, i,
                 processed, skipped, from_cache, loaded, calls, outcome, unsaved>>

InitDir(kind) ==
  /\ enrichedFile = <<>>
  /\ reviewFile = <<>>
  /\ artFiles = {}
  /\ stateFile = IF kind = "state_unparseable" THEN [kind |-> "unparseable", content |-> <<>>]
                 ELSE IF kind = "state_not_object" THEN [kind |-> "not_object", content |-> <<>>]
                 ELSE AbsentFile
  /\ reportFile = IF kind = "report_unparseable" THEN [kind |-> "unparseable", content |-> <<>>]
                  ELSE IF kind = "report_not_object" THEN [kind |-> "not_object", content |-> <<>>]
                  ELSE AbsentFile

InitRun(n) ==
  /\ runs = 0
  /\ pc = "idle"
  /\ args = NoArgs
  /\ metadata = <<>>
  /\ input_format = "metadata_base"
  /\ state_processed = {}
  /\ dry_run_cache = <<>>
  /\ review_queue = <<>>
  /\ dry_run_results = <<>>
  /\ i = 1
  /\ processed = 0 /\ skipped = 0 /\ from_cache = 0
  /\ loaded = [tracks |-> <<>>, generated |-> 0, processed |-> {}]
  /\ calls = {}
  /\ outcome = [k \in 1..n |-> "pending"]
  /\ unsaved = 0

Init ==
  /\ \E cases \in CaseLists(NumTracks), kind \in InputKinds, dir \in DirKinds :
        /\ kind = BaseInput \/ dir = "clean"
        /\ world = [cases |-> cases, kind |-> kind]
        /\ InitDir(dir)
  /\ InitRun(NumTracks)
  /\ InitAux

\* Runs over catalogs one of whose tracks meets failing collaborator calls.
FailingLists(n) == {[k \in 1..n |-> IF k = p THEN c ELSE "review"] :
                      p \in 1..n, c \in FailingCaseNames}
InitFailing ==
  /\ \E cases \in FailingLists(NumTracks) :
       world = [cases |-> cases, kind |-> BaseInput]
  /\ InitDir("clean")
  /\ InitRun(NumTracks)
  /\ InitAux

Next ==
  \/ \E a \in ArgSets, online \in BOOLEAN :
       /\ online \/ (~a.skip_artwork /\ a.limit = 0)
       /\ StartRun(a, online)
  \/ HandleTrack
  \/ FinishRun
  \/ Interrupt

Spec == Init /\ [][Next]_vars
SpecFailing == InitFailing /\ [][Next]_vars

\* One real or dry run over a catalog longer than a batch: the first m tracks
\* find no match, the others raise in the lookup.
BatchCaseLists == {[k \in 1..BatchTracks |-> IF k <= m THEN "no_match" ELSE "lookup_raises"] :
                     m \in 0..BatchTracks}
BatchArgSets == [dry_run : BOOLEAN, resume : {FALSE}, skip_artwork : {TRUE}, limit : {0}]

InitBatch ==
  /\ \E cases \in BatchCaseLists : world = [cases |-> cases, kind |-> BaseInput]
  /\ InitDir("clean")
  /\ InitRun(BatchTracks)
  /\ InitAux

NextBatch ==
  \/ \E a \in BatchArgSets : runs = 0 /\ StartRun(a, TRUE)
  \/ HandleTrack
  \/ FinishRun
  \/ Interrupt

SpecBatch == InitBatch /\ [][NextBatch]_vars

\* A real run over a catalog longer than a batch, which may be interrupted,
\* and its --resume continuation: the first m tracks find no match, the others
\* go to review.
ResumeCaseLists == {[k \in 1..BatchTracks |-> IF k <= m THEN "no_match" ELSE "review"] :
                      m \in 0..BatchTracks}
RealArgs(resume) ==
  [dry_run |-> FALSE, resume |-> resume, skip_artwork |-> TRUE, limit |-> 0]

InitResume ==
  /\ \E cases \in ResumeCaseLists : world = [cases |-> cases, kind |-> BaseInput]
  /\ InitDir("clean")
  /\ InitRun(BatchTracks)
  /\ InitAux

NextResume ==
  \/ runs = 0 /\ StartRun(RealArgs(FALSE), TRUE)
  \/ runs = 1 /\ pc = "interrupted" /\ StartRun(RealArgs(TRUE), TRUE)
  \/ HandleTrack
  \/ FinishRun
  \/ Interrupt

SpecResume == InitResume /\ [][NextResume]_vars

\* ------------------------------------------------- enrich_track on its own
\* One call of enrich_track in dry-run mode and one in real mode, on the same
\* track and the same answers of the collaborators.
MaxCandidates == 2

HEROES_TWICE == <<"Heroes", SPACE, "Heroes">>
HEROES_LOW == <<"Heroes", SPACE, "Low">>
BOWIE == <<"Bowie">>
SmallArt == [url |-> <<"itunes/250x250.jpg">>, width |-> 250, type |-> "front",
             format |-> "jpeg", source |-> "itunes"]

ProbeTracks ==
  {[Track(DB, HEROES, LOW, Y1977, NoneVal) EXCEPT !.id = TrackId(1)],
   [Track(DB, HEROES, NoneVal, NoneVal, OLD_ART) EXCEPT !.id = TrackId(1)],
   [Track(DB, HEROES, LOW, Y1978, OLD_ART) EXCEPT !.id = TrackId(1)],
   [Track(DB, NoneVal, LOW, NoneVal, NoneVal) EXCEPT !.id = TrackId(1)],
   [Track(NoneVal, <<>>, LOW, Y1977, OLD_ART) EXCEPT !.id = TrackId(1)]}

ProbeCandidates ==
  {Candidate(DB, HEROES, LOW, Y1977, RELEASE),
   Candidate(DB, HEROES, LOW, NoneVal, RELEASE),
   Candidate(DB, HEROES_TWICE, LOW, NoneVal, RELEASE),
   Candidate(DB, HEROES_TWICE, LOW, Y1978, RELEASE),
   Candidate(DB, HEROES_LOW, LOW, Y1977, RELEASE),
   Candidate(DB, LOW, LOW, NoneVal, RELEASE),
   Candidate(BOWIE, LOW, NoneVal, NoneVal, NoneVal),
   Candidate(DB, HEROES, NoneVal, NoneVal, NoneVal)}

CandidateLists(n) == UNION {[1..m -> ProbeCandidates] : m \in 0..n}

\* What the artwork collaborators answer, and whether the lookup raises.
ProbeArt ==
  {[lookup_raises |-> FALSE, caa |-> <<CaaArt>>, caa_dl |-> "ok", itunes |-> <<>>, itunes_dl |-> "ok"],
   [lookup_raises |-> FALSE, caa |-> <<CaaArt>>, caa_dl |-> "fail", itunes |-> <<>>, itunes_dl |-> "ok"],
   [lookup_raises |-> FALSE, caa |-> <<CaaArt>>, caa_dl |-> "raise", itunes |-> <<>>, itunes_dl |-> "ok"],
   [lookup_raises |-> FALSE, caa |-> <<>>, caa_dl |-> "ok", itunes |-> <<ITunesArt>>, itunes_dl |-> "ok"],
   [lookup_raises |-> FALSE, caa |-> <<>>, caa_dl |-> "ok", itunes |-> <<SmallArt>>, itunes_dl |-> "ok"],
   [lookup_raises |-> FALSE, caa |-> <<>>, caa_dl |-> "ok", itunes |-> <<>>, itunes_dl |-> "ok"],
   [lookup_raises |-> TRUE, caa |-> <<>>, caa_dl |-> "ok", itunes |-> <<>>, itunes_dl |-> "ok"]}

\* Every query of the lookup answers with the same candidates.
ProbeAnswers(candidates, a) ==
  [tier1 |-> candidates, tier2 |-> candidates, tier3 |-> candidates,
   lookup_raises |-> a.lookup_raises, caa |-> a.caa, caa_dl |-> a.caa_dl,
   itunes |-> a.itunes, itunes_dl |-> a.itunes_dl]

\* No run of main is under way.
InitIdle ==
  /\ world = [cases |-> <<>>, kind |-> BaseInput]
  /\ InitDir("clean")
  /\ InitRun(0)

InitEnrich ==
  /\ InitIdle
  /\ limiter = NoThreads
  /\ \E track \in ProbeTracks, candidates \in CandidateLists(MaxCandidates),
        a \in ProbeArt, skip_artwork \in BOOLEAN :
       probe = [fn |-> "enrich_track", track |-> track,
                r |-> ProbeAnswers(candidates, a), skip_artwork |-> skip_artwork,
                returned |-> FALSE]

Enriched(p, dry, real) ==
  [fn |-> p.fn, track |-> p.track, r |-> p.r, skip_artwork |-> p.skip_artwork,
   returned |-> TRUE, dry |-> dry, real |-> real]

CallEnrich ==
  /\ probe.fn = "enrich_track"
  /\ ~probe.returned
  /\ probe' = Enriched(probe,
                       enrich_track(probe.track, probe.r, probe.skip_artwork, TRUE, 1),
                       enrich_track(probe.track, probe.r, probe.skip_artwork, FALSE, 2))
  /\ UNCHANGED <<world, runs, fileVars, runVars, limiter>>

NextEnrich == CallEnrich

SpecEnrich == InitEnrich /\ [][NextEnrich]_vars

\* ------------------------------------------- the ranking of enrich_track
\* enrich_track on up to MaxRanked candidates, some of them with equal scores.
MaxRanked == 3
RELEASE2 == <<"release-2">>
RankTracks ==
  {[Track(DB, HEROES, NoneVal, NoneVal, NoneVal) EXCEPT !.id = TrackId(1)],
   [Track(DB, HEROES, LOW, Y1978, OLD_ART) EXCEPT !.id = TrackId(1)]}
RankCandidates ==
  {Candidate(DB, HEROES, LOW, Y1977, RELEASE),
   Candidate(DB, HEROES, LOW, Y1977, RELEASE2),
   Candidate(DB, HEROES, LOW, NoneVal, RELEASE),
   Candidate(DB, HEROES_TWICE, LOW, Y1978, RELEASE2),
   Candidate(DB, HEROES, NoneVal, NoneVal, NoneVal)}
RankLists == UNION {[1..m -> RankCandidates] : m \in 0..MaxRanked}

InitRank ==
  /\ InitIdle
  /\ limiter = NoThreads
  /\ \E track \in RankTracks, candidates \in RankLists, skip_artwork \in BOOLEAN :
       probe = [fn |-> "enrich_track", track |-> track,
                r |-> [tier1 |-> candidates, tier2 |-> <<>>, tier3 |-> <<>>,
                       lookup_raises |-> FALSE, caa |-> <<CaaArt>>, caa_dl |-> "ok",
                       itunes |-> <<>>, itunes_dl |-> "ok"],
                skip_artwork |-> skip_artwork, returned |-> FALSE]

SpecRank == InitRank /\ [][NextEnrich]_vars

\* ------------------------------------------ the artwork of enrich_track
\* enrich_track on at most one candidate, with or without a release id, and
\* every combination of what the two artwork collaborators answer.
ArtCandidateLists ==
  {<<>>, <<Candidate(DB, HEROES, LOW, Y1977, RELEASE)>>,
   <<Candidate(DB, HEROES, NoneVal, NoneVal, NoneVal)>>}
DownloadOutcomes == {"ok", "fail", "raise"}
ArtAnswers ==
  [lookup_raises : {FALSE}, caa : {<<>>, <<CaaArt>>}, caa_dl : DownloadOutcomes,
   itunes : {<<>>, <<ITunesArt>>, <<SmallArt>>}, itunes_dl : DownloadOutcomes]

InitArtwork ==
  /\ InitIdle
  /\ limiter = NoThreads
  /\ \E track \in ProbeTracks, candidates \in ArtCandidateLists, a \in ArtAnswers,
        skip_artwork \in BOOLEAN :
       probe = [fn |-> "enrich_track", track |-> track,
                r |-> ProbeAnswers(candidates, a), skip_artwork |-> skip_artwork,
                returned |-> FALSE]

SpecArtwork == InitArtwork /\ [][NextEnrich]_vars

\* ----------------------------------------------------- resolve on its own
\* One call of ConflictResolver.resolve.
MaxSources == 3

EIGHT == <<"a", SPACE, "b", SPACE, "c", SPACE, "d", SPACE, "e", SPACE, "f", SPACE, "g", SPACE, "h">>
NINE == EIGHT \o <<SPACE, "i">>
TEN == NINE \o <<SPACE, "j">>

\* Existing and candidate values: absent, empty, blank, and texts that are
\* equal, equal once normalized, 9/10, 8/9 and 1/2 similar, and unlike.
ProbeValues ==
  {NoneVal, <<>>, <<SPACE>>, DB, <<"david", SPACE, "bowie">>, BOWIE, HEROES,
   HEROES_LOW, Y1977, Y1978, EIGHT, NINE, TEN}

InitResolve ==
  /\ InitIdle
  /\ limiter = NoThreads
  /\ \E field \in Range(ResolveFields), existing_val \in ProbeValues,
        enriched_val \in ProbeValues, source_count \in 1..MaxSources :
       probe = [fn |-> "resolve", field |-> field, existing_val |-> existing_val,
                enriched_val |-> enriched_val, source_count |-> source_count,
                returned |-> FALSE]

CallResolve ==
  /\ probe.fn = "resolve"
  /\ ~probe.returned
  /\ probe' = [fn |-> probe.fn, field |-> probe.field,
               existing_val |-> probe.existing_val,
               enriched_val |-> probe.enriched_val,
               source_count |-> probe.source_count, returned |-> TRUE,
               resolution |-> resolve(probe.field, probe.existing_val,
                                      probe.enriched_val, probe.source_count)]
  /\ UNCHANGED <<world, runs, fileVars, runVars, limiter>>

NextResolve == CallResolve

SpecResolve == InitResolve /\ [][NextResolve]_vars

\* ------------------------------------------- string_similarity on its own
\* One call of string_similarity on two strings of up to MaxLen atoms.
MaxLen == 3
ProbeAtoms == {"David", "bowie", "feat.", SPACE}
ProbeStrings == UNION {[1..m -> ProbeAtoms] : m \in 0..MaxLen}

InitSimilarity ==
  /\ InitIdle
  /\ limiter = NoThreads
  /\ \E a \in ProbeStrings, b \in ProbeStrings :
       probe = [fn |-> "string_similarity", a |-> a, b |-> b, returned |-> FALSE]

CallSimilarity ==
  /\ probe.fn = "string_similarity"
  /\ ~probe.returned
  /\ probe' = [fn |-> probe.fn, a |-> probe.a, b |-> probe.b, returned |-> TRUE,
               similarity |-> string_similarity(probe.a, probe.b)]
  /\ UNCHANGED <<world, runs, fileVars, runVars, limiter>>

NextSimilarity == CallSimilarity

SpecSimilarity == InitSimilarity /\ [][NextSimilarity]_vars

\* ------------------------------------------------- MatchScorer.score on its own
\* One existing record scored against two candidates that differ in one
\* scored field.
D200 == <<"200">>
ScoreExisting ==
  {[artist |-> DB, title |-> HEROES, album |-> LOW, year |-> Y1977, duration |-> D200],
   [artist |-> DB, title |-> HEROES_LOW, album |-> NoneVal, year |-> NoneVal,
    duration |-> NoneVal],
   [artist |-> NoneVal, title |-> HEROES, album |-> <<>>, year |-> <<"1980">>,
    duration |-> <<"204">>]}

ScoreCandidates ==
  [artist : {DB, BOWIE, NoneVal}, title : {HEROES, HEROES_TWICE}, album : {LOW, NoneVal},
   year : {Y1977, <<"1980">>}, duration : {D200, <<"204">>}]

ScoreValues(field) ==
  IF field = "year" THEN {NoneVal, Y1977, Y1978, <<"1980">>, <<"1990">>}
  ELSE IF field = "duration"
    THEN {NoneVal, D200, <<"201">>, <<"204">>, <<"209">>, <<"300">>}
  ELSE {NoneVal, <<>>, DB, BOWIE, HEROES, HEROES_LOW, LOW}

InitScore ==
  /\ InitIdle
  /\ limiter = NoThreads
  /\ \E existing \in ScoreExisting, first \in ScoreCandidates,
        field \in Range(WeightFields), source_count \in 1..MaxSources :
       \E value \in ScoreValues(field) :
         probe = [fn |-> "score", existing |-> existing, first |-> first,
                  second |-> [first EXCEPT ![field] = value], field |-> field,
                  source_count |-> source_count, returned |-> FALSE]

CallScore ==
  /\ probe.fn = "score"
  /\ ~probe.returned
  /\ probe' = [fn |-> probe.fn, existing |-> probe.existing, first |-> probe.first,
               second |-> probe.second, field |-> probe.field,
               source_count |-> probe.source_count, returned |-> TRUE,
               score_first |-> score(probe.existing, probe.first, probe.source_count),
               score_second |-> score(probe.existing, probe.second, probe.source_count)]
  /\ UNCHANGED <<world, runs, fileVars, runVars, limiter>>

NextScore == CallScore

SpecScore == InitScore /\ [][NextScore]_vars

\* ------------------------------------------- search_recordings on its own
\* One call of search_recordings; each query answers with up to MaxCandidates
\* candidates of its own.
TierLists(candidate) == UNION {[1..m -> {candidate}] : m \in 0..MaxCandidates}
SearchArgs == {NoneVal, <<>>}

InitSearch ==
  /\ InitIdle
  /\ limiter = NoThreads
  /\ \E artist \in SearchArgs \cup {DB}, title \in SearchArgs \cup {HEROES},
        album \in SearchArgs \cup {LOW},
        tier1 \in TierLists(Candidate(DB, HEROES, LOW, Y1977, RELEASE)),
        tier2 \in TierLists(Candidate(DB, LOW, LOW, NoneVal, RELEASE)),
        tier3 \in TierLists(Candidate(BOWIE, HEROES, NoneVal, NoneVal, NoneVal)) :
       probe = [fn |-> "search_recordings", artist |-> artist, title |-> title,
                album |-> album,
                r |-> [tier1 |-> tier1, tier2 |-> tier2, tier3 |-> tier3],
                returned |-> FALSE]

CallSearch ==
  /\ probe.fn = "search_recordings"
  /\ ~probe.returned
  /\ probe' = [fn |-> probe.fn, artist |-> probe.artist, title |-> probe.title,
               album |-> probe.album, r |-> probe.r, returned |-> TRUE,
               found |-> search_recordings(probe.artist, probe.title, probe.album,
                                           probe.r)]
  /\ UNCHANGED <<world, runs, fileVars, runVars, limiter>>

NextSearch == CallSearch

SpecSearch == InitSearch /\ [][NextSearch]_vars

\* ------------------------------------------------------------ rate limiter
\* One RateLimiter (lines 58-73) and the threads that call its wait().  Time
\* is counted in ticks and kept as ages, capped at Interval: an age at the cap
\* stands for "Interval or more".
NumThreads == 2
\* 1.0 / self._rate, in ticks.
Interval == 2
Threads == 1..NumThreads

\* A faulty variant: no waiting at all.
wait_time_none(elapsed) == 0
\* wait_time = (1.0 / self._rate) - elapsed (line 70)
wait_time(elapsed) == Interval - elapsed

\* A faulty variant: leaving the with block keeps the lock.
release_keeps(holder) == holder
\* Leaving the with block releases the lock.
release(holder) == 0

\* since_call is monotonic() - self._last_call: _last_call starts at 0.0, so
\* the first age is the clock itself.  remaining is what is left of a
\* thread's time.sleep.  stamps and returns count, up to two, the assignments
\* of _last_call and the returns of wait(); close_calls and close_returns
\* tell whether two of them were less than Interval apart.
InitLimiter ==
  /\ InitIdle
  /\ probe = NoProbe
  /\ \E uptime \in 0..Interval :
       limiter = [pc |-> [t \in Threads |-> "idle"], holder |-> 0,
                  since_call |-> uptime, since_return |-> Interval,
                  remaining |-> [t \in Threads |-> 0],
                  stamps |-> 0, returns |-> 0,
                  close_calls |-> FALSE, close_returns |-> FALSE]

LimiterOnly == UNCHANGED <<world, runs, fileVars, runVars, probe>>

\* A thread calls wait() and asks for the lock (line 67).
CallWait(t) ==
  /\ limiter.pc[t] = "idle"
  /\ limiter' = [limiter EXCEPT !.pc[t] = "lock"]
  /\ LimiterOnly

\* with self._lock: the lock is free and the thread takes it.
AcquireLock(t) ==
  /\ limiter.pc[t] = "lock"
  /\ limiter.holder = 0
  /\ limiter' = [limiter EXCEPT !.pc[t] = "read", !.holder = t]
  /\ LimiterOnly

\* Lines 68-71: read the clock and _last_call, compute wait_time, sleep if it
\* is positive.
ReadClock(t) ==
  /\ limiter.pc[t] = "read"
  /\ limiter' = IF wait_time(limiter.since_call) > 0
                THEN [limiter EXCEPT !.pc[t] = "sleep",
                                     !.remaining[t] = wait_time(limiter.since_call)]
                ELSE [limiter EXCEPT !.pc[t] = "stamp"]
  /\ LimiterOnly

\* time.sleep(wait_time) ends once the time has passed (line 72).
WakeUp(t) ==
  /\ limiter.pc[t] = "sleep"
  /\ limiter.remaining[t] = 0
  /\ limiter' = [limiter EXCEPT !.pc[t] = "stamp"]
  /\ LimiterOnly

\* self._last_call = time.monotonic() (line 73)
StampCall(t) ==
  /\ limiter.pc[t] = "stamp"
  /\ limiter' = [limiter EXCEPT
                   !.pc[t] = "unlock",
                   !.since_call = 0,
                   !.stamps = Min(@ + 1, 2),
                   !.close_calls = @ \/ (limiter.stamps >= 1
                                         /\ limiter.since_call < Interval)]
  /\ LimiterOnly

\* The end of the with block.
ReleaseLock(t) ==
  /\ limiter.pc[t] = "unlock"
  /\ limiter' = [limiter EXCEPT !.pc[t] = "return",
                                !.holder = release(limiter.holder)]
  /\ LimiterOnly

\* wait() returns to its caller.
ReturnWait(t) ==
  /\ limiter.pc[t] = "return"
  /\ limiter' = [limiter EXCEPT
                   !.pc[t] = "idle",
                   !.since_return = 0,
                   !.returns = Min(@ + 1, 2),
                   !.close_returns = @ \/ (limiter.returns >= 1
                                           /\ limiter.since_return < Interval)]
  /\ LimiterOnly

\* The clock advances by one tick.
Tick ==
  /\ limiter.pc # <<>>
  /\ limiter' = [limiter EXCEPT
                   !.since_call = Min(@ + 1, Interval),
                   !.since_return = Min(@ + 1, Interval),
                   !.remaining = [t \in Threads |->
                                    IF limiter.remaining[t] > 0
                                    THEN limiter.remaining[t] - 1 ELSE 0]]
  /\ LimiterOnly

NextLimiter ==
  \/ \E t \in Threads : CallWait(t)
  \/ \E t \in Threads : AcquireLock(t)
  \/ \E t \in Threads : ReadClock(t)
  \/ \E t \in Threads : WakeUp(t)
  \/ \E t \in Threads : StampCall(t)
  \/ \E t \in Threads : ReleaseLock(t)
  \/ \E t \in Threads : ReturnWait(t)
  \/ Tick

SpecLimiter == InitLimiter /\ [][NextLimiter]_vars

\* Time passes, a thread that can take its next step takes it, and a thread
\* that finds the lock free again and again gets it.
FairLimiter ==
  /\ WF_vars(Tick)
  /\ \A t \in Threads :
       /\ SF_vars(AcquireLock(t))
       /\ WF_vars(ReadClock(t))
       /\ WF_vars(WakeUp(t))
       /\ WF_vars(StampCall(t))
       /\ WF_vars(ReleaseLock(t))
       /\ WF_vars(ReturnWait(t))

SpecLimiterFair == InitLimiter /\ [][NextLimiter]_vars /\ FairLimiter

\* ------------------------------------------------------------------ claims
AllIds == {metadata[k].id : k \in 1..Len(metadata)}
ItemPlaces == 1..NumItems
Untimed(e) == [e EXCEPT !.timestamp = 0]
ReviewsOf(queue, id) == SelectSeq(queue, LAMBDA e : e.track_id = id)
CanonicalFields == {"id", "artist", "title", "album", "year", "duration", "genre",
                    "artwork_path"}
Persisted == enrichedFile[1].tracks

\* What one real run without a dry-run report gives the track at place k.
SingleRealRun(k) == enrich_track(loaded.tracks[k], answers(k), args.skip_artwork, FALSE, runs)
\* The record a dry run with the same options leaves for the track at place k.
DryRunOf(k) == enrich_track(loaded.tracks[k], answers(k), args.skip_artwork, TRUE, runs)

\* A --resume run that started on the artifacts of a real run which had
\* handled every track and written its final checkpoint.
ResumedAfterCompleteRun ==
  /\ args.resume
  /\ enrichedFile # <<>>
  /\ \/ pc = "done" /\ AllIds \subseteq loaded.processed
     \/ pc = "offline" /\ stateFile.kind = "valid" /\ AllIds \subseteq Range(stateFile.content)

\* C1: after a real run handled every track and wrote its final checkpoint, a
\* run with --resume over the same input makes no collaborator call, counts
\* every track as skipped and leaves every persisted Track Record unchanged.
C1_ResumeProcessesNothing ==
  ResumedAfterCompleteRun =>
    /\ calls = {}
    /\ skipped = NumItems
    /\ Persisted = loaded.tracks

\* The same, for the runs that reach the loop.
C1_OnlineResumeProcessesNothing ==
  (ResumedAfterCompleteRun /\ pc = "done") =>
    /\ calls = {}
    /\ skipped = NumItems
    /\ Persisted = loaded.tracks

\* The track at place k was replayed, in a real run over the unmodified
\* catalog, from the record a dry run with the same options made of it.
ReplayedFromDryRun(k) ==
  /\ ~args.dry_run
  /\ pc \in {"loop", "done", "interrupted"}
  /\ outcome[k] = "cache"
  /\ loaded.tracks[k] = normalize_input(input).metadata[k]
  /\ CacheGet(dry_run_cache, metadata[k].id) # <<>>
  /\ Untimed(CacheGet(dry_run_cache, metadata[k].id)[1].enrichment)
       = Untimed(DryRunOf(k).enrichment)
  /\ ~SingleRealRun(k).raised

\* C2: a dry run followed by a real run gives every track the fields_updated
\* list and the review entry of a single real run with no prior dry run.
C2_DryThenRealSameDecisions ==
  \A k \in 1..Len(metadata) :
    ReplayedFromDryRun(k) =>
      /\ metadata[k].enrichment[1].fields_updated
           = SingleRealRun(k).enrichment.fields_updated
      /\ ReviewsOf(review_queue, metadata[k].id) = SingleRealRun(k).review

\* C3: a dry-run record carries a proposed update for each field of its
\* fields_updated (artwork aside), so a dry run followed by a real run leaves
\* artist, title, album, year and genre as a single real run leaves them.
C3_DryRunRecordsReplayable ==
  /\ \A n \in 1..Len(dry_run_results) :
       \A f \in Range(dry_run_results[n].enrichment.fields_updated) \ {"artwork"} :
         f \in DOMAIN dry_run_results[n].proposed_updates
  /\ \A k \in 1..Len(metadata) :
       ReplayedFromDryRun(k) =>
         \A f \in Range(ResolveFields) :
           metadata[k][f] = ApplyUpdates(loaded.tracks[k], SingleRealRun(k).updates)[f]

\* What a step of a dry run must leave alone.
DryRunFrame ==
  /\ enrichedFile' = enrichedFile
  /\ reviewFile' = reviewFile
  /\ stateFile' = stateFile
  /\ artFiles' = artFiles
  /\ \A c \in calls' : c[2] \notin {"caa_download", "itunes_download"}
  /\ \A k \in 1..Len(metadata') :
       \A f \in CanonicalFields : metadata'[k][f] = loaded'.tracks[k][f]

\* C4: in dry-run mode no canonical field of a Track Record changes, no
\* artwork is downloaded, and the catalog, review-queue and processing-state
\* artifacts are never written.
C4_DryRunWritesOnlyReport == [][args'.dry_run => DryRunFrame]_vars

\* The same, for the dry runs that find the collaborator reachable.
C4_OnlineDryRunWritesOnlyReport ==
  [][(args'.dry_run /\ pc' # "offline") => DryRunFrame]_vars

\* C5: in a real run at most 25 tracks (processed, replayed or recorded as
\* error) are handled since the last persisted checkpoint, and a checkpoint is
\* written at run completion.
C5_AtMostOneBatchUnsaved ==
  ~args.dry_run => /\ unsaved <= CheckpointEvery
                   /\ pc = "done" => unsaved = 0

\* Handling the track at place i raises.
HandlingRaises ==
  /\ pc = "loop" /\ i <= NumItems
  /\ ~(args.resume /\ is_processed(state_processed, metadata[i].id))
  /\ ResultFor(i).raised

\* C6: when handling a track raises, in fresh enrichment or in the replay of a
\* cached decision, the track gets status error, its id joins the Processing
\* State and the run goes on to the next track.
C6_TrackFailureRecorded ==
  [][(HandlingRaises /\ pc' # "interrupted") =>
       /\ pc' = "loop"
       /\ i' = i + 1
       /\ metadata'[i].enrichment # <<>>
       /\ metadata'[i].enrichment[1].status = "error"
       /\ metadata[i].id \in state_processed']_vars

Malformed == {"unparseable", "not_object"}

\* C7: a processing-state or dry-run report artifact that exists but is
\* malformed (unparseable, or parseable but of another shape) is treated as
\* absent: the run starts from the empty state and is not ended by it.
C7_MalformedStateIsAbsent ==
  [][(runs' = runs + 1
      /\ (stateFile.kind \in Malformed \/ (~args'.dry_run /\ reportFile.kind \in Malformed))) =>
       /\ pc' \in {"loop", "offline"}
       /\ stateFile.kind \in Malformed => state_processed' = {}
       /\ reportFile.kind \in Malformed => dry_run_cache' = <<>>]_vars

OfflineMark == <<[status |-> "skipped", reason |-> "offline", timestamp |-> runs]>>

\* C8 as stated: with the primary collaborator unreachable at run start no
\* track is enriched, every track of the written catalog is skipped/offline
\* and every other field of every Track Record is as in the input.
C8_OfflineLeavesOtherFields ==
  pc = "offline" =>
    /\ calls = {}
    /\ Len(Persisted) = Len(input.tracks)
    /\ \A k \in 1..Len(input.tracks) :
         /\ Persisted[k].enrichment = OfflineMark
         /\ \A f \in DOMAIN input.tracks[k] \ {"enrichment"} :
              Persisted[k][f] = input.tracks[k][f]

\* C8 amended: with the primary collaborator unreachable at run start no
\* track is enriched, every track of the written catalog is skipped/offline
\* and every other field the input record holds is as in the input; a record
\* of a list-form catalog that holds no original_filename gets one, the last
\* segment of its path (or its id).
C8_OfflineLeavesInputFields ==
  pc = "offline" =>
    /\ calls = {}
    /\ Len(Persisted) = Len(input.tracks)
    /\ \A k \in 1..Len(input.tracks) :
         LET in == input.tracks[k]
             out == Persisted[k]
         IN /\ out.enrichment = OfflineMark
            /\ \A f \in DOMAIN in \ {"enrichment", "original_filename"} : out[f] = in[f]
            /\ in.original_filename # NoneVal => out.original_filename = in.original_filename
            /\ in.original_filename = NoneVal =>
                 out.original_filename =
                   IF input.format = "manifest"
                   THEN LastSegment(IF ~Falsy(in.path) THEN in.path ELSE <<in.id>>)
                   ELSE NoneVal
C8_Witness ==
  /\ pc = "offline"
  /\ input.format = "manifest"
  /\ \E k \in 1..Len(input.tracks) : input.tracks[k].original_filename = NoneVal
  /\ \E k \in 1..Len(input.tracks) : ~Falsy(input.tracks[k].artwork_path)

\* C9: in a run with --resume a track whose id is in the Processing State
\* loaded at start, ended normally or with error, is terminal: no lookup,
\* replay or artwork call is made for it and its record stays as loaded.
C9_ProcessedTracksTerminal ==
  (args.resume /\ pc \in {"loop", "done", "interrupted", "fatal"}) =>
    \A k \in 1..Len(metadata) :
      loaded.tracks[k].id \in loaded.processed =>
        /\ \A c \in calls : c[1] # k
        /\ metadata[k] = loaded.tracks[k]
        /\ outcome[k] \in {"pending", "skipped"}
        /\ (k < i /\ k <= NumItems) => outcome[k] = "skipped"
        /\ pc = "done" => Persisted[k] = loaded.tracks[k]
C9_Witness ==
  /\ args.resume /\ pc = "done"
  /\ \E k \in 1..Len(metadata) :
       /\ outcome[k] = "skipped"
       /\ metadata[k].enrichment # <<>> /\ metadata[k].enrichment[1].status = "error"
  /\ \E k \in 1..Len(metadata) : outcome[k] = "fresh"

\* C10: the Processing State only grows within a run (mark_processed only
\* adds, nothing removes an id), and reloading a saved state gives the same set.
C10_ProcessingStateGrows ==
  [][/\ runs' = runs => state_processed \subseteq state_processed'
     /\ stateFile' # stateFile =>
          /\ ~StateLoad(stateFile').raised
          /\ StateLoad(stateFile').processed = state_processed']_vars
C10_Witness ==
  /\ pc = "done" /\ ~args.dry_run
  /\ stateFile.kind = "valid"
  /\ Len(stateFile.content) > 1
  /\ state_processed = Range(stateFile.content)

\* The queries of the reference-lookup collaborator.
LookupCalls == {"query_artist_title", "query_artist_album", "query_title"}

\* C11: in a real run the reference-lookup collaborator is never called for a
\* track whose id has an entry in the dry-run cache, and the status,
\* confidence, conflicts and review entry applied to it are the cached ones.
C11_CachedTracksNotLookedUp ==
  (~args.dry_run /\ pc \in {"loop", "done", "interrupted", "fatal"}) =>
    \A k \in 1..Len(metadata) :
      CacheGet(dry_run_cache, metadata[k].id) # <<>> =>
        /\ \A c \in calls : c[1] = k => c[2] \notin LookupCalls
        /\ outcome[k] \in {"pending", "skipped", "cache"}
        /\ outcome[k] = "cache" =>
             /\ metadata[k].enrichment[1].status
                  = CacheGet(dry_run_cache, metadata[k].id)[1].enrichment.status
             /\ metadata[k].enrichment[1].match_confidence
                  = CacheGet(dry_run_cache, metadata[k].id)[1].enrichment.match_confidence
             /\ metadata[k].enrichment[1].conflicts
                  = CacheGet(dry_run_cache, metadata[k].id)[1].enrichment.conflicts
             /\ ReviewsOf(review_queue, metadata[k].id)
                  = CacheGet(dry_run_cache, metadata[k].id)[1].review
C11_Witness ==
  /\ ~args.dry_run /\ pc = "done"
  /\ \E k \in 1..Len(metadata) :
       /\ outcome[k] = "cache"
       /\ CacheGet(dry_run_cache, metadata[k].id)[1].review # <<>>
       /\ CacheGet(dry_run_cache, metadata[k].id)[1].enrichment.conflicts # <<>>
  /\ \E k \in 1..Len(metadata) : outcome[k] = "fresh"

\* enrich_track was called in both modes and both calls returned.
BothReturned ==
  /\ probe.fn = "enrich_track"
  /\ probe.returned
  /\ ~probe.dry.raised
  /\ ~probe.real.raised

\* C12: for the same track and the same collaborator answers, enrich_track with
\* dry_run set and with dry_run unset return the same status, match_confidence,
\* source, fields_confirmed, conflicts, artwork decision block and review entry.
C12_DryAndRealDecideAlike ==
  BothReturned =>
    /\ probe.dry.enrichment.status = probe.real.enrichment.status
    /\ probe.dry.enrichment.match_confidence = probe.real.enrichment.match_confidence
    /\ probe.dry.enrichment.source = probe.real.enrichment.source
    /\ probe.dry.enrichment.fields_confirmed = probe.real.enrichment.fields_confirmed
    /\ probe.dry.enrichment.conflicts = probe.real.enrichment.conflicts
    /\ probe.dry.enrichment.artwork = probe.real.enrichment.artwork
    /\ probe.dry.review = probe.real.review

C12_Witness ==
  /\ BothReturned
  /\ probe.real.wrote_art
  /\ probe.real.updates # probe.dry.updates
  /\ probe.real.enrichment.conflicts # <<>>
  /\ probe.real.enrichment.fields_confirmed # <<>>
  /\ probe.real.review # <<>>
  /\ "artwork_upgrade_with_existing" \in Range(probe.real.review[1].reason)

\* The threads that hold the lock of the limiter, by their position in wait().
InCriticalSection == {t \in Threads : limiter.pc[t] \in {"read", "sleep", "stamp", "unlock"}}

\* C13, as stated: any two returns of wait() are at least 1/rate apart, and at
\* most one caller at a time reads or writes the last-call timestamp.
C13_ReturnsSpaced ==
  /\ ~limiter.close_returns
  /\ Cardinality(InCriticalSection) <= 1

\* C13, amended: any two assignments of the last-call timestamp are at least
\* 1/rate apart, and at most one caller at a time reads or writes it.
C13_CallsSpaced ==
  /\ ~limiter.close_calls
  /\ Cardinality(InCriticalSection) <= 1

C13_Witness ==
  /\ limiter.stamps = 2
  /\ limiter.since_call = 0
  /\ \E t \in Threads : limiter.pc[t] = "unlock"
  /\ \E t \in Threads : limiter.pc[t] = "lock"

\* C14: every call of wait() eventually returns, when the lock is scheduled
\* fairly.
C14_EveryCallReturns ==
  \A t \in Threads : (limiter.pc[t] = "lock") ~> (limiter.pc[t] = "idle")

C14_Witness ==
  /\ \E t \in Threads : limiter.pc[t] = "sleep" /\ limiter.remaining[t] > 0
  /\ \E t \in Threads : limiter.pc[t] = "lock"
  /\ limiter.returns >= 1

\* The results of the two calls of enrich_track that returned.
ProbeResults ==
  IF probe.fn = "enrich_track" /\ probe.returned
  THEN {res \in {probe.dry, probe.real} : ~res.raised}
  ELSE {}
NoArtistNoTitle == Falsy(probe.track.artist) /\ Falsy(probe.track.title)
\* The candidates the lookup hands to enrich_track, and their scores.
Received ==
  search_recordings(probe.track.artist, probe.track.title, probe.track.album,
                    probe.r).candidates
ScoreOf(k) == score(probe.track, Received[k], 1)
MaxScore == CHOOSE m \in {ScoreOf(k) : k \in 1..Len(Received)} :
              \A k \in 1..Len(Received) : m >= ScoreOf(k)
Ranked == SortScored(ScoreAll(probe.track, Received))
ArtworkCalls == {"caa_lookup", "itunes_lookup", "caa_download", "itunes_download"}

\* C15: for a track with artist or title and at least one candidate,
\* match_confidence is the best candidate score, and the status is
\* auto_accepted iff that score is >= 0.85, review_needed iff it is in
\* [0.50, 0.85), below_threshold iff it is < 0.50.
C15_StatusFollowsBestScore ==
  \A res \in ProbeResults :
    (~NoArtistNoTitle /\ Received # <<>>) =>
      /\ res.enrichment.match_confidence = MaxScore
      /\ res.enrichment.status = "auto_accepted" <=> MaxScore >= 8500
      /\ res.enrichment.status = "review_needed" <=> (MaxScore >= 5000 /\ MaxScore < 8500)
      /\ res.enrichment.status = "below_threshold" <=> MaxScore < 5000

C15_Witness ==
  /\ probe.fn = "enrich_track" /\ probe.returned
  /\ probe.real \in ProbeResults
  /\ Len(Received) = 2
  /\ ScoreOf(1) < ScoreOf(2)
  /\ MaxScore = 8500
  /\ probe.real.enrichment.status = "auto_accepted"

\* C16: with status no_match or below_threshold, enrich_track returns no field
\* updates and no review entry, lists no field as updated and makes no artwork
\* collaborator call.
C16_NoMatchAndBelowThresholdStop ==
  \A res \in ProbeResults :
    res.enrichment.status \in {"no_match", "below_threshold"} =>
      /\ res.updates = EmptyUpdates
      /\ res.review = <<>>
      /\ res.enrichment.fields_updated = <<>>
      /\ Range(res.calls) \cap ArtworkCalls = {}

C16_Witness ==
  /\ probe.fn = "enrich_track" /\ probe.returned
  /\ probe.real \in ProbeResults
  /\ probe.real.enrichment.status = "below_threshold"
  /\ ~probe.skip_artwork
  /\ probe.r.itunes # <<>>
  /\ ~Falsy(probe.track.artwork_path)

\* C17: when artist and title are both absent, enrich_track calls no lookup
\* and no artwork collaborator, sets status no_metadata and returns a review
\* entry for the track with no suggestions, and no field updates.
C17_NoMetadataGoesToReview ==
  (probe.fn = "enrich_track" /\ probe.returned /\ NoArtistNoTitle) =>
    \A res \in {probe.dry, probe.real} :
      /\ ~res.raised
      /\ res.calls = <<>>
      /\ res.enrichment.status = "no_metadata"
      /\ Len(res.review) = 1
      /\ res.review[1].track_id = probe.track.id
      /\ res.review[1].suggestions = <<>>
      /\ res.updates = EmptyUpdates

C17_Witness ==
  /\ probe.fn = "enrich_track" /\ probe.returned
  /\ NoArtistNoTitle
  /\ probe.r.tier1 # <<>>
  /\ probe.r.caa # <<>>
  /\ ~probe.skip_artwork
  /\ probe.real.review # <<>>

\* The two top-ranked candidates both score >= 0.50, their scores differ by
\* less than 0.10 and their titles normalize to different strings.
Ambiguous ==
  /\ Len(Ranked) >= 2
  /\ Ranked[2].score >= 5000
  /\ Ranked[1].score - Ranked[2].score < 1000
  /\ normalize(StrOf(Ranked[1].cand.title)) # normalize(StrOf(Ranked[2].cand.title))

\* C18: when the two top-ranked candidates are ambiguous, enrich_track returns
\* a review entry, also when the status is auto_accepted.
C18_AmbiguityForcesReview ==
  \A res \in ProbeResults : Ambiguous => res.review # <<>>

C18_Witness ==
  /\ probe.fn = "enrich_track" /\ probe.returned
  /\ probe.real \in ProbeResults
  /\ Ambiguous
  /\ probe.real.enrichment.status = "auto_accepted"
  /\ probe.real.review # <<>>
  /\ probe.real.review[1].reason = <<"multiple_high_confidence_disagree">>

\* A review trigger fired for the track: no artist and title, confidence in
\* [0.50, 0.85), ambiguity, a likely correction, or the replacement of
\* existing artwork.
TriggerFired(res) ==
  \/ NoArtistNoTitle
  \/ res.enrichment.match_confidence >= 5000 /\ res.enrichment.match_confidence < 8500
  \/ ~NoArtistNoTitle /\ Ambiguous
  \/ \E k \in 1..Len(res.enrichment.conflicts) :
       "suggested" \in DOMAIN res.enrichment.conflicts[k]
  \/ /\ res.enrichment.artwork # <<>>
     /\ res.enrichment.artwork[1].upgrade
     /\ ~Falsy(probe.track.artwork_path)

\* C19: enrich_track returns a review entry iff at least one review trigger
\* fired for the track.
C19_ReviewIffTrigger ==
  \A res \in ProbeResults : res.review # <<>> <=> TriggerFired(res)

\* A value is absent or blank: None, or a text of nothing but white space.
AbsentOrBlank(v) == v = NoneVal \/ \A k \in 1..Len(v) : v[k] = SPACE
\* The similarity of the two values of the call is at least 0.9.
Similar ==
  10 * string_similarity(probe.existing_val, probe.enriched_val).n
    >= 9 * string_similarity(probe.existing_val, probe.enriched_val).d
\* The classification and action the rules give, taken in order.
RuleFor(existing_val, enriched_val, source_count) ==
  IF AbsentOrBlank(enriched_val) THEN <<"no_data", "keep">>
  ELSE IF AbsentOrBlank(existing_val) THEN <<"supplement", "auto_fill">>
  ELSE IF Similar THEN <<"confirmed", "keep">>
  ELSE IF source_count >= 2 THEN <<"likely_correction", "flag_review">>
  ELSE <<"alternative", "keep">>

\* C20: resolve applies the rules in order: candidate absent or blank gives
\* no_data/keep; else existing absent or blank gives supplement/auto_fill with
\* the candidate's value; else similarity >= 0.9 gives confirmed/keep; else
\* source_count >= 2 gives likely_correction/flag_review; else alternative/keep.
C20_ResolveRulesInOrder ==
  (probe.fn = "resolve" /\ probe.returned) =>
    /\ <<probe.resolution.classification, probe.resolution.action>>
         = RuleFor(probe.existing_val, probe.enriched_val, probe.source_count)
    /\ probe.resolution.classification = "supplement" =>
         probe.resolution.value = probe.enriched_val

C20_Witness ==
  /\ probe.fn = "resolve" /\ probe.returned
  /\ probe.existing_val = TEN
  /\ probe.enriched_val = NINE
  /\ probe.source_count >= 2
  /\ probe.resolution.classification = "confirmed"

\* A run that applies its decisions is under way or has ended.
InRealRun == ~args.dry_run /\ pc \in {"loop", "done", "interrupted", "fatal"}
\* The record now keeps what the record before held: every field is still
\* there, and artist, title, album, year and genre keep a non-blank value.
KeepsExisting(before, now) ==
  /\ DOMAIN before \subseteq DOMAIN now
  /\ \A f \in Range(ResolveFields) : HasValue(before[f]) => now[f] = before[f]

\* C21: after any real run, fresh or replayed, every track keeps each non-blank
\* value of artist, title, album, year and genre it had before the run, and no
\* field is removed; a disagreeing candidate value is recorded in conflicts only.
C21_ExistingValuesKept ==
  InRealRun =>
    /\ \A k \in 1..Len(metadata) : KeepsExisting(loaded.tracks[k], metadata[k])
    /\ pc = "done" =>
         \A k \in 1..Len(Persisted) : KeepsExisting(loaded.tracks[k], Persisted[k])

C21_Witness ==
  /\ InRealRun /\ pc = "done"
  /\ \E k \in 1..Len(Persisted) :
       /\ outcome[k] \in {"fresh", "cache"}
       /\ Persisted[k].enrichment[1].status = "auto_accepted"
       /\ Persisted[k].enrichment[1].conflicts # <<>>
       /\ Persisted[k].year = Y1978
  /\ \E k \in 1..Len(Persisted) :
       /\ outcome[k] = "fresh"
       /\ "album" \in Range(Persisted[k].enrichment[1].fields_updated)
       /\ Persisted[k].album = LOW

\* The candidates the lookup gives for the track at place k, ranked, and the
\* condition under which field f of that track is to be filled: blank on the
\* track, non-blank on the winning candidate, best score at least 0.50.
RankedFor(k) ==
  SortScored(ScoreAll(loaded.tracks[k],
                      search_recordings(loaded.tracks[k].artist, loaded.tracks[k].title,
                                        loaded.tracks[k].album, answers(k)).candidates))
ToFill(track, ranked, f) ==
  /\ ~(Falsy(track.artist) /\ Falsy(track.title))
  /\ ranked # <<>>
  /\ ranked[1].score >= 5000
  /\ ~HasValue(track[f])
  /\ HasValue(ranked[1].cand[f])
\* Field f of the track at place k was filled with the winning candidate's value.
FilledAt(k, f) ==
  /\ metadata[k][f] # loaded.tracks[k][f]
  /\ metadata[k][f] = RankedFor(k)[1].cand[f]

\* C22: in a real run a field among artist, title, album, year, genre of a
\* handled track is filled with the winning candidate's value iff it is blank
\* on the track, non-blank on the candidate and the best score is >= 0.50.
C22_FilledIffBlankAndScored ==
  InRealRun =>
    \A k \in 1..Len(metadata) : \A f \in Range(ResolveFields) :
      outcome[k] \in {"fresh", "cache"} =>
        /\ metadata[k][f] # loaded.tracks[k][f] => FilledAt(k, f)
        /\ FilledAt(k, f) <=> ToFill(loaded.tracks[k], RankedFor(k), f)

\* The same for the tracks that enrich_track handled in the run.
C22_FreshFilledIffBlankAndScored ==
  InRealRun =>
    \A k \in 1..Len(metadata) : \A f \in Range(ResolveFields) :
      outcome[k] = "fresh" =>
        /\ metadata[k][f] # loaded.tracks[k][f] => FilledAt(k, f)
        /\ FilledAt(k, f) <=> ToFill(loaded.tracks[k], RankedFor(k), f)

\* An artwork upgrade was decided for a track that has an artwork reference.
UpgradeOverExisting(res) ==
  /\ res.enrichment.artwork # <<>>
  /\ res.enrichment.artwork[1].upgrade
  /\ ~Falsy(probe.track.artwork_path)

\* C23: whenever an artwork upgrade is decided for a track that already has an
\* artwork reference, enrich_track adds the artwork-replacement review reason
\* and returns a review entry for the track; existing artwork is never
\* replaced without one.
C23_ReplacementIsFlagged ==
  \A res \in ProbeResults :
    /\ UpgradeOverExisting(res) =>
         /\ Len(res.review) = 1
         /\ res.review[1].track_id = probe.track.id
         /\ "artwork_upgrade_with_existing" \in Range(res.review[1].reason)
    /\ (res.wrote_art /\ ~Falsy(probe.track.artwork_path)) => res.review # <<>>

C23_Witness ==
  /\ probe.fn = "enrich_track" /\ probe.returned
  /\ probe.real \in ProbeResults
  /\ UpgradeOverExisting(probe.real)
  /\ probe.real.wrote_art
  /\ probe.real.enrichment.status = "auto_accepted"
  /\ probe.real.review[1].reason = <<"artwork_upgrade_with_existing">>

\* string_similarity was called on one string twice.
SameString ==
  /\ probe.fn = "string_similarity"
  /\ probe.returned
  /\ probe.a = probe.b

\* C24, as stated: for all strings a, string_similarity(a, a) is 1.0.
C24_SelfSimilarityIsOne ==
  SameString => probe.similarity.n = probe.similarity.d

\* C24, amended: for every non-empty string a, string_similarity(a, a) is 1.0;
\* for the empty string it is 0.
C24_NonEmptySelfSimilarityIsOne ==
  SameString =>
    /\ probe.a # <<>> => probe.similarity.n = probe.similarity.d
    /\ probe.a = <<>> => probe.similarity.n = 0

C24_Witness ==
  /\ SameString
  /\ probe.a = <<SPACE, "feat.">>
  /\ probe.similarity.n = probe.similarity.d

\* The similarity of one scored field of a candidate to the existing value.
FieldSimilarity(field, existing, candidate) ==
  IF field = "year"
    THEN [n |-> year_similarity(existing.year, candidate.year), d |-> 10]
  ELSE IF field = "duration"
    THEN [n |-> duration_similarity(existing.duration, candidate.duration), d |-> 10]
  ELSE string_similarity(TextArg(existing[field]), TextArg(candidate[field]))

SecondIsCloser ==
  /\ probe.fn = "score"
  /\ probe.returned
  /\ LET x == FieldSimilarity(probe.field, probe.existing, probe.first)
         y == FieldSimilarity(probe.field, probe.existing, probe.second)
     IN x.n * y.d < y.n * x.d

\* C25: of two candidates that differ in one scored field only, the one whose
\* field is more similar to the existing value scores at least as high, for
\* every existing record and source_count.
C25_ScoreIsMonotonic == SecondIsCloser => probe.score_first <= probe.score_second

C25_Witness ==
  /\ SecondIsCloser
  /\ probe.field = "album"
  /\ probe.source_count = 3
  /\ probe.score_first < probe.score_second
  /\ probe.score_second = 10000

\* C26: when a real run is interrupted, every track handled so far is in a
\* checkpoint: none is unsaved and the processing state on disk names every
\* track the run marked processed.
C26_InterruptLandsOnCheckpoint ==
  (pc = "interrupted" /\ ~args.dry_run) =>
    /\ unsaved = 0
    /\ state_processed \subseteq StateLoad(stateFile).processed

\* The real run replayed, for the track at place k, a dry-run record that
\* flagged an artwork upgrade; artwork is not skipped and the record's
\* proposed updates hold no artwork path.
ReplaysFlaggedUpgrade(k) ==
  /\ ~args.dry_run
  /\ pc \in {"loop", "done", "interrupted"}
  /\ ~args.skip_artwork
  /\ outcome[k] = "cache"
  /\ LET cached == CacheGet(dry_run_cache, metadata[k].id)
     IN /\ cached # <<>>
        /\ cached[1].enrichment.artwork # <<>>
        /\ cached[1].enrichment.artwork[1].upgrade
        /\ "artwork_path" \notin DOMAIN cached[1].proposed_updates

\* The download call of the collaborator that supplied the artwork of the
\* record cached for the track at place k.
DownloadBySupplier(k) ==
  IF CacheGet(dry_run_cache, metadata[k].id)[1].enrichment.artwork[1].source = "itunes"
  THEN "itunes_download" ELSE "caa_download"

\* C27: a real run that replays a cached decision with a flagged artwork
\* upgrade, artwork not skipped and no artwork path among the cached updates,
\* makes the artwork download, whichever collaborator supplied the artwork.
C27_ReplayDownloadsFlaggedArtwork ==
  \A k \in 1..Len(metadata) :
    ReplaysFlaggedUpgrade(k) => <<k, DownloadBySupplier(k)>> \in calls

\* The places of a call in the calls a result of enrich_track lists.
Places(res, c) == {k \in 1..Len(res.calls) : res.calls[k] = c}

\* C28: enrich_track asks the secondary artwork collaborator only after the
\* primary one returned nothing for the winning candidate's release, or when
\* that candidate has no release id, never when the primary returned artwork;
\* and the download is made by the collaborator the artwork's source names.
C28_SecondaryOnlyAfterEmptyPrimary ==
  \A res \in ProbeResults :
    /\ Places(res, "caa_lookup") # {} => ~Falsy(Ranked[1].cand.mb_release_id)
    /\ \A k \in Places(res, "itunes_lookup") :
         /\ Places(res, "caa_lookup") = {} \/ probe.r.caa = <<>>
         /\ \A m \in Places(res, "caa_lookup") : m < k
    /\ \A k \in Places(res, "itunes_download") :
         /\ res.enrichment.artwork[1].source = "itunes"
         /\ Places(res, "caa_download") = {}
         /\ \E m \in Places(res, "itunes_lookup") : m < k
    /\ \A k \in Places(res, "caa_download") :
         /\ res.enrichment.artwork[1].source = "coverartarchive"
         /\ \E m \in Places(res, "caa_lookup") : m < k
         /\ Places(res, "itunes_lookup") = {}

C28_Witness ==
  /\ BothReturned
  /\ probe.r.caa = <<>>
  /\ probe.r.caa_dl = "raise"
  /\ Places(probe.real, "caa_lookup") # {}
  /\ Places(probe.real, "itunes_lookup") # {}
  /\ Places(probe.real, "itunes_download") # {}
  /\ probe.real.wrote_art

\* The place of a query among the tiers, and what the collaborator answers it.
TierOf(q) ==
  IF q = "query_artist_title" THEN 1 ELSE IF q = "query_artist_album" THEN 2 ELSE 3
AnswerTo(q) ==
  IF TierOf(q) = 1 THEN probe.r.tier1
  ELSE IF TierOf(q) = 2 THEN probe.r.tier2 ELSE probe.r.tier3

\* C29: the queries are issued in the order artist+title, artist+album, title
\* alone; every query but the last one issued returned nothing, so no query
\* follows one that returned a candidate; and the candidates returned are those
\* of the last query issued.
C29_TiersInOrderUntilFirstHit ==
  (probe.fn = "search_recordings" /\ probe.returned) =>
    LET qs == probe.found.queries
    IN /\ \A j, k \in 1..Len(qs) : j < k => TierOf(qs[j]) < TierOf(qs[k])
       /\ \A k \in 1..Len(qs) : k < Len(qs) => AnswerTo(qs[k]) = <<>>
       /\ probe.found.candidates = IF qs = <<>> THEN <<>> ELSE AnswerTo(qs[Len(qs)])

C29_Witness ==
  /\ probe.fn = "search_recordings" /\ probe.returned
  /\ probe.r.tier1 = <<>>
  /\ probe.r.tier2 # <<>>
  /\ probe.r.tier3 # <<>>
  /\ probe.found.queries = <<"query_artist_title", "query_artist_album">>
  /\ probe.found.candidates = probe.r.tier2

\* The place, in lookup order, of the earliest candidate with the highest score
\* among those at the places in among.
EarliestBest(among) ==
  CHOOSE k \in among :
    /\ \A j \in among : ScoreOf(j) <= ScoreOf(k)
    /\ \A j \in among : j < k => ScoreOf(j) < ScoreOf(k)
WinnerPlace == EarliestBest(1..Len(Received))
SecondPlace == EarliestBest((1..Len(Received)) \ {WinnerPlace})
ScoredAt(k) == [score |-> ScoreOf(k), cand |-> Received[k]]

\* C30: the candidates are ranked by descending score, ties in lookup order:
\* the winner (whose score, source and ids the enrichment records and who is
\* the first suggestion) is the earliest candidate with the maximal score, and
\* the second-ranked (the second suggestion) the earliest remaining candidate
\* with the next-highest score.
C30_RankedByScoreTiesInLookupOrder ==
  \A res \in ProbeResults :
    (~NoArtistNoTitle /\ Received # <<>>) =>
      /\ \A j, k \in 1..Len(Ranked) : j < k => Ranked[j].score >= Ranked[k].score
      /\ Ranked[1] = ScoredAt(WinnerPlace)
      /\ Len(Ranked) >= 2 => Ranked[2] = ScoredAt(SecondPlace)
      /\ res.enrichment.match_confidence = ScoreOf(WinnerPlace)
      /\ res.enrichment.source = Received[WinnerPlace].source
      /\ res.enrichment.status \in {"auto_accepted", "review_needed"} =>
           /\ res.enrichment.mb_release_id = Received[WinnerPlace].mb_release_id
           /\ res.enrichment.mb_recording_id = Received[WinnerPlace].mb_recording_id
      /\ res.review # <<>> =>
           /\ res.review[1].suggestions[1] = Suggestion(ScoredAt(WinnerPlace))
           /\ Len(res.review[1].suggestions) = 2 =>
                res.review[1].suggestions[2] = Suggestion(ScoredAt(SecondPlace))
           /\ Len(res.review[1].suggestions) = 2
                <=> (Len(Received) >= 2 /\ ScoreOf(SecondPlace) >= REVIEW_THRESHOLD)

\* Three candidates: the first scores lowest, the other two tie for the best
\* score under different release ids; the earlier of the two wins and the later
\* is the second suggestion.
C30_Witness ==
  /\ BothReturned
  /\ Len(Received) = 3
  /\ ScoreOf(1) < ScoreOf(2)
  /\ ScoreOf(2) = ScoreOf(3)
  /\ Received[2].mb_release_id = RELEASE2
  /\ Received[3].mb_release_id = RELEASE
  /\ probe.real.enrichment.mb_release_id = RELEASE2
  /\ probe.real.review # <<>>
  /\ Len(probe.real.review[1].suggestions) = 2

\* The track at place k was handled from the dry-run cache in a real run.
ReplayedAt(k) ==
  /\ ~args.dry_run
  /\ pc \in {"loop", "done", "interrupted", "fatal"}
  /\ outcome[k] = "cache"
CachedAt(k) == CacheGet(dry_run_cache, metadata[k].id)[1]
Attached(k) == metadata[k].enrichment[1]

\* C31, as stated: the enrichment attached to a replayed track is the cached
\* enrichment in every part except the timestamp.
C31_ReplayKeepsAllButTimestamp ==
  \A k \in 1..Len(metadata) :
    ReplayedAt(k) => Untimed(Attached(k)) = Untimed(CachedAt(k).enrichment)

\* C31, amended: the enrichment attached to a replayed track is the cached
\* enrichment in every part except the timestamp and fields_updated, which is
\* the cached list, with "artwork" appended exactly when the replay downloaded
\* the artwork.
C31_ReplayKeepsAllButTimestampAndArtwork ==
  \A k \in 1..Len(metadata) :
    ReplayedAt(k) =>
      /\ [Untimed(Attached(k)) EXCEPT !.fields_updated = <<>>]
           = [Untimed(CachedAt(k).enrichment) EXCEPT !.fields_updated = <<>>]
      /\ Attached(k).fields_updated =
           IF "artwork_path" \in DOMAIN ResultFor(k).updates
           THEN Append(CachedAt(k).enrichment.fields_updated, "artwork")
           ELSE CachedAt(k).enrichment.fields_updated

C31_Witness ==
  /\ pc = "done"
  /\ \E k \in 1..Len(metadata) :
       /\ ReplayedAt(k)
       /\ Attached(k).timestamp # CachedAt(k).enrichment.timestamp
       /\ Attached(k).conflicts # <<>>
       /\ Attached(k).fields_updated
            = Append(CachedAt(k).enrichment.fields_updated, "artwork")

\* The track at place k meets a failing collaborator call and was handled in
\* the run.
FailedAt(k) ==
  /\ world.cases[k] \in FailingCaseNames
  /\ pc \in {"loop", "done", "interrupted", "fatal"}
  /\ outcome[k] \notin {"pending", "skipped"}
\* The calls of the track at place k with every failed lookup replaced by a
\* lookup that answers with nothing.
NoResultCalls(k) ==
  LET raw == FailingCalls(world.cases[k])
  IN [c \in DOMAIN raw |->
        IF c \notin {"caa_dl", "itunes_dl"} /\ raw[c].outcome # "ok"
        THEN Call("ok", <<>>) ELSE raw[c]]
DownloadFailsAt(k) ==
  \E c \in {"caa_dl", "itunes_dl"} : FailingCalls(world.cases[k])[c].outcome # "ok"

\* C32: a failed or timed-out collaborator call is handled as no result: the
\* track never gets status error and never ends the run; handled afresh it
\* ends exactly as when the failed lookups had answered with nothing (no_match
\* when every query failed), a failed download leaves the artwork path and
\* fields_updated without artwork, and a run without --limit that completes
\* has handled every track.
C32_FailedCallsAreNoResult ==
  /\ \A k \in 1..Len(metadata) :
       FailedAt(k) =>
         /\ outcome[k] \in {"fresh", "cache"}
         /\ Attached(k).status # "error"
         /\ outcome[k] = "fresh" =>
              LET same == enrich_track(loaded.tracks[k], Collaborators(NoResultCalls(k)),
                                       args.skip_artwork, args.dry_run, runs)
              IN /\ ~same.raised
                 /\ Attached(k) = same.enrichment
                 /\ ReviewsOf(review_queue, metadata[k].id) = same.review
                 /\ \A f \in DOMAIN loaded.tracks[k] \ {"enrichment"} :
                      metadata[k][f] = IF args.dry_run THEN loaded.tracks[k][f]
                                       ELSE ApplyUpdates(loaded.tracks[k], same.updates)[f]
         /\ (outcome[k] = "fresh" /\ world.cases[k] = "queries_fail") =>
              Attached(k).status = "no_match"
         /\ DownloadFailsAt(k) =>
              /\ metadata[k].artwork_path = loaded.tracks[k].artwork_path
              /\ "artwork" \notin Range(Attached(k).fields_updated)
  /\ (\E k \in 1..Len(world.cases) : world.cases[k] \in FailingCaseNames) => pc # "fatal"
  /\ (pc = "done" /\ args.limit = 0) => \A k \in 1..Len(metadata) : outcome[k] # "pending"

\* Every query of the first track timed out or failed: the track ends with
\* no_match and the run goes on to enrich the second track and completes.
C32_Witness ==
  /\ pc = "done" /\ ~args.dry_run
  /\ world.cases = <<"queries_fail", "review">>
  /\ outcome = <<"fresh", "fresh">>
  /\ {<<1, "query_artist_title">>, <<1, "query_artist_album">>, <<1, "query_title">>}
       \subseteq calls
  /\ Attached(1).status = "no_match"
  /\ Attached(2).status = "review_needed"

\* C33: every id in the persisted processing state belongs to a track whose
\* persisted record carries an enrichment sub-record, after every checkpoint of
\* a real run, also of a run without --resume started on an earlier run's state.
C33_ProcessedIdsAreEnriched ==
  (stateFile.kind = "valid" /\ enrichedFile # <<>>) =>
    \A id \in Range(stateFile.content) :
      \E k \in 1..Len(Persisted) :
        Persisted[k].id = id /\ Persisted[k].enrichment # <<>>

\* The --resume continuation of an interrupted real run has completed.
ResumedRunDone ==
  /\ runs = 2 /\ pc = "done"
  /\ args.resume /\ ~args.dry_run

\* C34: at the final checkpoint of the --resume continuation of an interrupted
\* real run, the persisted review queue holds the review entry of every track
\* that either run sent to review.
C34_ResumeKeepsReviewEntries ==
  ResumedRunDone =>
    \A k \in 1..Len(Persisted) :
      (Persisted[k].enrichment # <<>>
       /\ Persisted[k].enrichment[1].status = "review_needed") =>
        /\ reviewFile # <<>>
        /\ ReviewsOf(reviewFile[1], Persisted[k].id) # <<>>

\* C35: when the primary collaborator is unreachable at the start of a --resume
\* run, every track that an earlier run persisted with an enrichment result
\* (other than an offline record) is still persisted as that run left it:
\* its enrichment result and its fields.
C35_OfflineResumeKeepsEarlierWork ==
  (pc = "offline" /\ args.resume) =>
    \A k \in 1..Len(loaded.tracks) :
      (loaded.tracks[k].enrichment # <<>>
       /\ loaded.tracks[k].enrichment[1].status # "skipped") =>
        Persisted[k] = loaded.tracks[k]

\* The weighted sum for a candidate with no corroboration bonus added.
NoBonusScore(track, candidate) ==
  Round4(WeightedTotal(string_similarity(TextArg(track.artist), TextArg(candidate.artist)),
                       string_similarity(TextArg(track.title), TextArg(candidate.title)),
                       string_similarity(TextArg(track.album), TextArg(candidate.album)),
                       year_similarity(track.year, candidate.year),
                       duration_similarity(track.duration, candidate.duration)))
\* The track and the candidate both have a value for the field, and the two are
\* less than 0.9 similar.
Disagree(track, candidate, f) ==
  /\ HasValue(track[f])
  /\ HasValue(candidate[f])
  /\ 10 * string_similarity(StrOf(track[f]), StrOf(candidate[f])).n
       < 9 * string_similarity(StrOf(track[f]), StrOf(candidate[f])).d
CorrectionReasons == {"likely_correction:" \o f : f \in Range(ResolveFields)}

\* What one result of enrich_track shows when winner is the best candidate.
SingleSource(res, track, winner) ==
  /\ res.enrichment.match_confidence = NoBonusScore(track, winner)
  /\ \A k \in 1..Len(res.enrichment.conflicts) :
       /\ "suggested" \notin DOMAIN res.enrichment.conflicts[k]
       /\ res.enrichment.conflicts[k].alternative
            = winner[res.enrichment.conflicts[k].field]
  /\ res.review # <<>> => Range(res.review[1].reason) \cap CorrectionReasons = {}
  /\ res.enrichment.status \in {"auto_accepted", "review_needed"} =>
       \A f \in Range(ResolveFields) :
         Disagree(track, winner, f)
           <=> \E k \in 1..Len(res.enrichment.conflicts) :
                 res.enrichment.conflicts[k].field = f

\* C36: enrich_track scores and resolves with source_count 1: the confidence
\* is the weighted sum without bonus, no conflict is a likely correction, no
\* review reason is likely_correction, and the conflicts are exactly the
\* disagreements of the winning candidate with existing values, each recorded
\* as an alternative.
C36_SingleSourceOnly ==
  (ProbeResults # {} /\ ~NoArtistNoTitle /\ Received # <<>>) =>
    \A res \in ProbeResults : SingleSource(res, probe.track, Ranked[1].cand)

C36_Witness ==
  /\ BothReturned
  /\ probe.real.enrichment.status = "auto_accepted"
  /\ probe.real.enrichment.match_confidence = 9300
  /\ probe.real.enrichment.conflicts
       = <<[field |-> "year", existing |-> Y1978, alternative |-> Y1977]>>

\* A real run has reached its completion and removed the dry-run report.
ReportConsumed == pc = "done" /\ ~args.dry_run /\ dry_run_cache # <<>>

\* C37: when a real run removes the dry-run report, every cached decision for
\* a track of the catalog has been replayed onto that track, also under
\* --limit and --resume; and no run replays from a removed report.
C37_ReportRemovedAfterEveryReplay ==
  /\ ReportConsumed =>
       /\ reportFile = AbsentFile
       /\ \A k \in 1..Len(metadata) : CachedFor(k) # <<>> => outcome[k] = "cache"
  /\ (pc = "loop" /\ dry_run_cache # <<>>) => reportFile.kind = "valid"

====
